---- MODULE Spec2Model ----
(***************************************************************************)
(* A model of nvidia-ai-chat (src/main.go, src/models.go): the command     *)
(* line client that keeps a conversation in a JSON file, merges settings,  *)
(* builds one request body per user turn and decodes the reply.            *)
(*                                                                         *)
(* Conventions of the model                                                *)
(*   - a text (message content, file body) is a sequence of atoms; an atom *)
(*     is a string that the program never looks into, except the reasoning *)
(*     markers and the newline, which are atoms of their own;              *)
(*   - a float64 is an integer count of hundredths (0.95 is 95);           *)
(*   - a Go map is a function whose domain is the set of its keys;         *)
(*   - a value of type interface{} is a record [t, n, s, b] whose tag t    *)
(*     says which of the other fields is meant.                            *)
(***************************************************************************)
EXTENDS Integers, Sequences, FiniteSets, TLC

VARIABLES
    pc,           \* where main() is: "start", "promptmode", "prompt", "awaiting", "exited"
    rawArgs,      \* os.Args[1:]
    env,          \* the environment variables named by apiEnvNames
    fs,           \* the file system: path -> file
    cfg,          \* main's cfg map[string]string
    cmds,         \* number of slash-commands handled
    provided,     \* main's provided map, as the set of its keys
    run,          \* main's other locals: ACCESS_TOKEN, sysPromptContent, convFile, ...
    requests,     \* every POST to /chat/completions, in order
    turns,        \* number of user turns begun
    lastOp,       \* what the last step did
    exitCode,     \* -1 while running, else the exit status of the process
    wr,           \* the writeConversation call in progress (stepwise specification)
    sIn,          \* decoder input  (decoder specification)
    sOut,         \* decoder output (decoder specification)
    typed,        \* the last input typed at the prompt (specifications of the loop)
    stack         \* the calls of ensureHistoryFileStructure in progress (its own specification)

vars == << pc, rawArgs, env, fs, cfg, cmds, provided, run, requests,
           turns, lastOp, exitCode, wr, sIn, sOut, typed, stack >>

----------------------------------------------------------------------------
(* Bounds of the model.                                                    *)

MaxTurns == 2     \* user turns of one session
MaxLimit == 2     \* history limits range over 0..MaxLimit
MaxChunks == 3    \* stream chunks per response in the decoder specification
MaxStored == 2    \* messages in the conversation file a run may start from

----------------------------------------------------------------------------
(* Generic helpers on maps and sequences.                                  *)

EmptyMap == [k \in {} |-> ""]

Put(m, k, v) == [j \in (DOMAIN m) \cup {k} |-> IF j = k THEN v ELSE m[j]]

Has(m, k) == k \in DOMAIN m

IsPrefix(s, t) == Len(s) <= Len(t) /\ SubSeq(t, 1, Len(s)) = s

Range(s) == { s[i] : i \in 1..Len(s) }

RECURSIVE SetToSeq(_)
SetToSeq(S) == IF S = {} THEN << >>
               ELSE LET e == CHOOSE e \in S : TRUE IN << e >> \o SetToSeq(S \ {e})

----------------------------------------------------------------------------
(* strconv and fmt.                                                        *)

Err == [ok |-> FALSE, v |-> 0]
Ok(v) == [ok |-> TRUE, v |-> v]

\* fmt.Sprintf("%d", n)
FormatD(n) == IF n < 0 THEN "-" \o ToString(-n) ELSE ToString(n)

\* fmt.Sprintf("%g", f) for f = h/100: shortest representation, no trailing zeros
FormatG(h) ==
    LET a == IF h < 0 THEN -h ELSE h
        whole == a \div 100
        frac == a % 100
        digits == IF frac = 0 THEN ToString(whole)
                  ELSE IF frac % 10 = 0 THEN ToString(whole) \o "." \o ToString(frac \div 10)
                  ELSE IF frac < 10 THEN ToString(whole) \o ".0" \o ToString(frac)
                  ELSE ToString(whole) \o "." \o ToString(frac)
    IN IF h < 0 THEN "-" \o digits ELSE digits

\* strconv.FormatBool
FormatBool(b) == IF b THEN "true" ELSE "false"

\* The integers whose decimal form the model reads back.
IntLits == { -1, 0, 1, 2, 3, 4, 5, 7, 40, 1024, 2048, 4096, 8192, 16384, 65536 }

\* The floats (in hundredths) whose %g form the model reads back.
FloatLits == { 100 * i : i \in IntLits } \cup
             { -200, 1, 20, 50, 60, 70, 80, 90, 95, 110, 150, 250 }

AtoiTable == [s \in { FormatD(i) : i \in IntLits } |->
                 CHOOSE i \in IntLits : FormatD(i) = s]

ParseFloatTable == [s \in { FormatG(h) : h \in FloatLits } |->
                       CHOOSE h \in FloatLits : FormatG(h) = s]

\* strconv.Atoi: decimal digits with an optional sign, nothing else
Atoi(s) == IF s \in DOMAIN AtoiTable THEN Ok(AtoiTable[s])
           ELSE IF s = "+1" THEN Ok(1)
           ELSE Err

\* strconv.ParseFloat(s, 64): also accepts forms %g never prints
ParseFloat(s) == IF s \in DOMAIN ParseFloatTable THEN Ok(ParseFloatTable[s])
                 ELSE IF s = "1.0" THEN Ok(100)
                 ELSE IF s = "+1" THEN Ok(100)
                 ELSE IF s = "1e0" THEN Ok(100)
                 ELSE Err

\* strconv.ParseBool
ParseBool(s) == IF s \in {"1", "t", "T", "TRUE", "true", "True"} THEN Ok(TRUE)
                ELSE IF s \in {"0", "f", "F", "FALSE", "false", "False"} THEN Ok(FALSE)
                ELSE Err

\* mustAtoi
mustAtoi(s, def) == IF Atoi(s).ok THEN Atoi(s).v ELSE def

\* strings.ToUpper on the setting names
ToUpper(k) ==
    CASE k = "temperature" -> "TEMPERATURE"
      [] k = "top_p" -> "TOP_P"
      [] k = "frequency_penalty" -> "FREQUENCY_PENALTY"
      [] k = "presence_penalty" -> "PRESENCE_PENALTY"
      [] k = "max_tokens" -> "MAX_TOKENS"
      [] k = "stop" -> "STOP"
      [] k = "reasoning_effort" -> "REASONING_EFFORT"
      [] k = "thinking_budget" -> "THINKING_BUDGET"
      [] k = "min_thinking_tokens" -> "MIN_THINKING_TOKENS"
      [] k = "max_thinking_tokens" -> "MAX_THINKING_TOKENS"
      [] k = "seed" -> "SEED"
      [] k = "thinking" -> "THINKING"
      [] k = "stream" -> "STREAM"
      [] k = "history_limit" -> "HISTORY_LIMIT"
      [] k = "model" -> "MODEL"
      [] OTHER -> k

----------------------------------------------------------------------------
(* Values of type interface{}.                                             *)

FloatV(h) == [t |-> "float", n |-> h, s |-> "", b |-> FALSE]   \* a Go float64
IntV(i)   == [t |-> "int", n |-> i, s |-> "", b |-> FALSE]     \* a Go int
StrV(x)   == [t |-> "string", n |-> 0, s |-> x, b |-> FALSE]
BoolV(x)  == [t |-> "bool", n |-> 0, s |-> "", b |-> x]
NilV      == [t |-> "nil", n |-> 0, s |-> "", b |-> FALSE]

\* encoding/json: Marshal followed by Unmarshal into interface{}.  Every
\* JSON number comes back as a float64.
JSONRoundTrip(v) == IF v.t = "int" THEN FloatV(100 * v.n) ELSE v

----------------------------------------------------------------------------
(* The model registry (src/models.go).                                     *)

\* ModelParameter: Min and Max are float64, in hundredths; 0 is "not set"
P(type, default, min, max, options, apiKey) ==
    [Type |-> type, Default |-> default, Min |-> min, Max |-> max,
     Options |-> options, APIKey |-> apiKey]

ModelDefinitions ==
    ("openai/gpt-oss-120b" :> [PrependedSystemMessageOnThinking |-> "", ChatTemplateKwargsThinking |-> FALSE, Parameters |-> [
            temperature |-> P("float", FloatV(100), 0, 100, {}, "temperature"),
            top_p |-> P("float", FloatV(100), 1, 100, {}, "top_p"),
            frequency_penalty |-> P("float", FloatV(0), -200, 200, {}, "frequency_penalty"),
            presence_penalty |-> P("float", FloatV(0), -200, 200, {}, "presence_penalty"),
            max_tokens |-> P("int", IntV(4096), 100, 409600, {}, "max_tokens"),
            stop |-> P("string_array", StrV(""), 0, 0, {}, "stop"),
            reasoning_effort |-> P("string", StrV("medium"), 0, 0, {"low", "medium", "high"}, "reasoning_effort") ]])
 @@ ("bytedance/seed-oss-36b-instruct" :> [PrependedSystemMessageOnThinking |-> "", ChatTemplateKwargsThinking |-> FALSE, Parameters |-> [
            temperature |-> P("float", FloatV(110), 0, 200, {}, "temperature"),
            top_p |-> P("float", FloatV(95), 1, 100, {}, "top_p"),
            max_tokens |-> P("int", IntV(4096), 100, 0, {}, "max_tokens"),
            thinking_budget |-> P("int", IntV(-1), -100, 1638400, {}, "thinking_budget"),
            frequency_penalty |-> P("float", FloatV(0), -200, 200, {}, "frequency_penalty"),
            presence_penalty |-> P("float", FloatV(0), -200, 200, {}, "presence_penalty"),
            stop |-> P("string_array", StrV(""), 0, 0, {}, "stop"),
            seed |-> P("int", IntV(0), 0, 0, {}, "seed") ]])
 @@ ("qwen/qwen3-coder-480b-a35b-instruct" :> [PrependedSystemMessageOnThinking |-> "", ChatTemplateKwargsThinking |-> FALSE, Parameters |-> [
            temperature |-> P("float", FloatV(70), 0, 100, {}, "temperature"),
            top_p |-> P("float", FloatV(80), 1, 100, {}, "top_p"),
            frequency_penalty |-> P("float", FloatV(0), -200, 200, {}, "frequency_penalty"),
            presence_penalty |-> P("float", FloatV(0), -200, 200, {}, "presence_penalty"),
            max_tokens |-> P("int", IntV(4096), 100, 1638400, {}, "max_tokens"),
            stop |-> P("string_array", StrV(""), 0, 0, {}, "stop") ]])
 @@ ("nvidia/nvidia-nemotron-nano-9b-v2" :> [PrependedSystemMessageOnThinking |-> "/think", ChatTemplateKwargsThinking |-> FALSE, Parameters |-> [
            temperature |-> P("float", FloatV(60), 0, 100, {}, "temperature"),
            top_p |-> P("float", FloatV(95), 1, 100, {}, "top_p"),
            max_tokens |-> P("int", IntV(2048), 100, 819200, {}, "max_tokens"),
            min_thinking_tokens |-> P("int", IntV(1024), 100, 409600, {}, "min_thinking_tokens"),
            max_thinking_tokens |-> P("int", IntV(2048), 100, 409600, {}, "max_thinking_tokens"),
            frequency_penalty |-> P("float", FloatV(0), -200, 200, {}, "frequency_penalty"),
            presence_penalty |-> P("float", FloatV(0), -200, 200, {}, "presence_penalty"),
            stop |-> P("string_array", StrV(""), 0, 0, {}, "stop"),
            seed |-> P("int", IntV(0), 0, 0, {}, "seed") ]])
 @@ ("nvidia/llama-3.3-nemotron-super-49b-v1.5" :> [PrependedSystemMessageOnThinking |-> "/think", ChatTemplateKwargsThinking |-> FALSE, Parameters |-> [
            temperature |-> P("float", FloatV(60), 0, 100, {}, "temperature"),
            top_p |-> P("float", FloatV(95), 1, 100, {}, "top_p"),
            max_tokens |-> P("int", IntV(65536), 100, 0, {}, "max_tokens"),
            frequency_penalty |-> P("float", FloatV(0), -200, 200, {}, "frequency_penalty"),
            presence_penalty |-> P("float", FloatV(0), -200, 200, {}, "presence_penalty"),
            stop |-> P("string_array", StrV(""), 0, 0, {}, "stop"),
            seed |-> P("int", IntV(0), 0, 0, {}, "seed"),
            thinking |-> P("bool", BoolV(FALSE), 0, 0, {}, "") ]])
 @@ ("mistralai/mistral-nemotron" :> [PrependedSystemMessageOnThinking |-> "", ChatTemplateKwargsThinking |-> FALSE, Parameters |-> [
            temperature |-> P("float", FloatV(60), 0, 100, {}, "temperature"),
            top_p |-> P("float", FloatV(70), 1, 100, {}, "top_p"),
            frequency_penalty |-> P("float", FloatV(0), -200, 200, {}, "frequency_penalty"),
            presence_penalty |-> P("float", FloatV(0), -200, 200, {}, "presence_penalty"),
            max_tokens |-> P("int", IntV(4096), 100, 409600, {}, "max_tokens"),
            stop |-> P("string_array", StrV(""), 0, 0, {}, "stop") ]])
 @@ ("mistralai/mistral-small-24b-instruct" :> [PrependedSystemMessageOnThinking |-> "", ChatTemplateKwargsThinking |-> FALSE, Parameters |-> [
            temperature |-> P("float", FloatV(20), 0, 100, {}, "temperature"),
            top_p |-> P("float", FloatV(70), 1, 100, {}, "top_p"),
            frequency_penalty |-> P("float", FloatV(0), -200, 200, {}, "frequency_penalty"),
            presence_penalty |-> P("float", FloatV(0), -200, 200, {}, "presence_penalty"),
            max_tokens |-> P("int", IntV(1024), 100, 819200, {}, "max_tokens"),
            stop |-> P("string_array", StrV(""), 0, 0, {}, "stop") ]])
 @@ ("deepseek-ai/deepseek-v3.1" :> [PrependedSystemMessageOnThinking |-> "", ChatTemplateKwargsThinking |-> TRUE, Parameters |-> [
            temperature |-> P("float", FloatV(20), 1, 100, {}, "temperature"),
            top_p |-> P("float", FloatV(70), 1, 100, {}, "top_p"),
            max_tokens |-> P("int", IntV(8192), 100, 1638400, {}, "max_tokens"),
            stop |-> P("string_array", StrV(""), 0, 0, {}, "stop"),
            seed |-> P("int", NilV, 0, 0, {}, "seed"),
            thinking |-> P("bool", BoolV(TRUE), 0, 0, {}, "") ]])
 @@ ("deepseek-ai/deepseek-r1-distill-qwen-32b" :> [PrependedSystemMessageOnThinking |-> "", ChatTemplateKwargsThinking |-> FALSE, Parameters |-> [
            temperature |-> P("float", FloatV(60), 0, 100, {}, "temperature"),
            top_p |-> P("float", FloatV(70), 1, 100, {}, "top_p"),
            frequency_penalty |-> P("float", FloatV(0), -200, 200, {}, "frequency_penalty"),
            presence_penalty |-> P("float", FloatV(0), -200, 200, {}, "presence_penalty"),
            max_tokens |-> P("int", IntV(4096), 100, 409600, {}, "max_tokens"),
            stop |-> P("string_array", StrV(""), 0, 0, {}, "stop") ]])
 @@ ("deepseek-ai/deepseek-r1-distill-llama-8b" :> [PrependedSystemMessageOnThinking |-> "", ChatTemplateKwargsThinking |-> FALSE, Parameters |-> [
            temperature |-> P("float", FloatV(60), 0, 100, {}, "temperature"),
            top_p |-> P("float", FloatV(70), 1, 100, {}, "top_p"),
            frequency_penalty |-> P("float", FloatV(0), -200, 200, {}, "frequency_penalty"),
            presence_penalty |-> P("float", FloatV(0), -200, 200, {}, "presence_penalty"),
            max_tokens |-> P("int", IntV(4096), 100, 409600, {}, "max_tokens"),
            stop |-> P("string_array", StrV(""), 0, 0, {}, "stop") ]])
 @@ ("deepseek-ai/deepseek-r1-0528" :> [PrependedSystemMessageOnThinking |-> "", ChatTemplateKwargsThinking |-> FALSE, Parameters |-> [
            temperature |-> P("float", FloatV(60), 0, 100, {}, "temperature"),
            top_p |-> P("float", FloatV(70), 1, 100, {}, "top_p"),
            frequency_penalty |-> P("float", FloatV(0), -200, 200, {}, "frequency_penalty"),
            presence_penalty |-> P("float", FloatV(0), -200, 200, {}, "presence_penalty"),
            max_tokens |-> P("int", IntV(4096), 100, 409600, {}, "max_tokens"),
            stop |-> P("string_array", StrV(""), 0, 0, {}, "stop") ]])
 @@ ("qwen/qwen3-next-80b-a3b-instruct" :> [PrependedSystemMessageOnThinking |-> "", ChatTemplateKwargsThinking |-> FALSE, Parameters |-> [
            temperature |-> P("float", FloatV(60), 0, 100, {}, "temperature"),
            top_p |-> P("float", FloatV(70), 1, 100, {}, "top_p"),
            frequency_penalty |-> P("float", FloatV(0), -200, 200, {}, "frequency_penalty"),
            presence_penalty |-> P("float", FloatV(0), -200, 200, {}, "presence_penalty"),
            max_tokens |-> P("int", IntV(4096), 100, 409600, {}, "max_tokens"),
            stop |-> P("string_array", StrV(""), 0, 0, {}, "stop") ]])
 @@ ("qwen/qwen3-next-80b-a3b-thinking" :> [PrependedSystemMessageOnThinking |-> "", ChatTemplateKwargsThinking |-> FALSE, Parameters |-> [
            temperature |-> P("float", FloatV(60), 0, 100, {}, "temperature"),
            top_p |-> P("float", FloatV(70), 1, 100, {}, "top_p"),
            frequency_penalty |-> P("float", FloatV(0), -200, 200, {}, "frequency_penalty"),
            presence_penalty |-> P("float", FloatV(0), -200, 200, {}, "presence_penalty"),
            max_tokens |-> P("int", IntV(4096), 100, 409600, {}, "max_tokens"),
            stop |-> P("string_array", StrV(""), 0, 0, {}, "stop") ]])
 @@ ("moonshotai/kimi-k2-instruct-0905" :> [PrependedSystemMessageOnThinking |-> "", ChatTemplateKwargsThinking |-> FALSE, Parameters |-> [
            temperature |-> P("float", FloatV(60), 0, 100, {}, "temperature"),
            top_p |-> P("float", FloatV(90), 1, 100, {}, "top_p"),
            max_tokens |-> P("int", IntV(4096), 100, 1638400, {}, "max_tokens"),
            stop |-> P("string_array", StrV(""), 0, 0, {}, "stop") ]])
 @@ ("google/codegemma-7b" :> [PrependedSystemMessageOnThinking |-> "", ChatTemplateKwargsThinking |-> FALSE, Parameters |-> [
            temperature |-> P("float", FloatV(50), 0, 100, {}, "temperature"),
            top_p |-> P("float", FloatV(100), 0, 100, {}, "top_p"),
            max_tokens |-> P("int", IntV(1024), 100, 102400, {}, "max_tokens"),
            stop |-> P("string_array", StrV(""), 0, 0, {}, "stop"),
            seed |-> P("int", IntV(0), 0, 0, {}, "seed") ]])
 @@ ("google/gemma-7b" :> [PrependedSystemMessageOnThinking |-> "", ChatTemplateKwargsThinking |-> FALSE, Parameters |-> [
            temperature |-> P("float", FloatV(50), 0, 100, {}, "temperature"),
            top_p |-> P("float", FloatV(100), 0, 100, {}, "top_p"),
            max_tokens |-> P("int", IntV(1024), 100, 102400, {}, "max_tokens"),
            stop |-> P("string_array", StrV(""), 0, 0, {}, "stop") ]])
 @@ ("mistralai/mixtral-8x22b-instruct-v0.1" :> [PrependedSystemMessageOnThinking |-> "", ChatTemplateKwargsThinking |-> FALSE, Parameters |-> [
            temperature |-> P("float", FloatV(50), 0, 100, {}, "temperature"),
            top_p |-> P("float", FloatV(100), 0, 100, {}, "top_p"),
            max_tokens |-> P("int", IntV(1024), 100, 102400, {}, "max_tokens"),
            stop |-> P("string_array", StrV(""), 0, 0, {}, "stop"),
            seed |-> P("int", IntV(0), 0, 0, {}, "seed") ]])
 @@ ("others" :> [PrependedSystemMessageOnThinking |-> "", ChatTemplateKwargsThinking |-> FALSE, Parameters |-> [
            temperature |-> P("float", FloatV(50), 0, 100, {}, "temperature"),
            top_p |-> P("float", FloatV(100), 0, 100, {}, "top_p"),
            max_tokens |-> P("int", IntV(1024), 100, 0, {}, "max_tokens"),
            frequency_penalty |-> P("float", FloatV(0), -200, 200, {}, "frequency_penalty"),
            presence_penalty |-> P("float", FloatV(0), -200, 200, {}, "presence_penalty"),
            stop |-> P("string_array", StrV(""), 0, 0, {}, "stop") ]])


\* the models with an entry in ModelDefinitions
modelsDefined == DOMAIN ModelDefinitions

\* ModelDefinitions[modelName] exists
modelDefined(modelName) == modelName \in modelsDefined

\* GetModelDefinition: the definition of a model, or the generic one
GetModelDefinition(modelName) ==
    LET lookup(defs) == IF modelName \in DOMAIN defs THEN defs[modelName]
                        ELSE defs["others"]
    IN lookup(ModelDefinitions)

defaultModel == "openai/gpt-oss-120b"

defaultHistoryLimit == 40

\* modelsList, in its order
modelsList == <<
    "openai/gpt-oss-120b", "bytedance/seed-oss-36b-instruct",
    "qwen/qwen3-coder-480b-a35b-instruct", "nvidia/nvidia-nemotron-nano-9b-v2",
    "nvidia/llama-3.3-nemotron-super-49b-v1.5", "mistralai/mistral-nemotron",
    "mistralai/mistral-small-24b-instruct", "deepseek-ai/deepseek-v3.1",
    "deepseek-ai/deepseek-r1-distill-qwen-32b",
    "deepseek-ai/deepseek-r1-distill-llama-8b", "deepseek-ai/deepseek-r1-0528",
    "qwen/qwen3-next-80b-a3b-instruct", "qwen/qwen3-next-80b-a3b-thinking",
    "moonshotai/kimi-k2-instruct-0905", "google/codegemma-7b", "google/gemma-7b",
    "mistralai/mixtral-8x22b-instruct-v0.1" >>

\* apiEnvNames, in its order
apiEnvNames == << "NVIDIA_BUILD_AI_ACCESS_TOKEN", "NVIDIA_ACCESS_TOKEN",
                  "ACCESS_TOKEN", "NVIDIA_API_KEY", "API_KEY" >>

----------------------------------------------------------------------------
(* Texts.                                                                  *)

BeginMark == "[Begin of Assistant Reasoning]"
EndMark == "[/End of Assistant Reasoning]"
EndMarkNoSlash == "[End of Assistant Reasoning]"
NL == "\n"

\* the characters the regexp class \s matches, as atoms
IsSpace(a) == a \in { NL, " ", "\t" }

\* strings.TrimSpace(text) != ""
NonBlank(text) == \E i \in 1..Len(text) : ~IsSpace(text[i])

----------------------------------------------------------------------------
(* The file system and the conversation file.                              *)

ConvPath == "conv.json"      \* a conversation file named on the command line
AutoPath == "conversation-ts.json"  \* the path main makes up when none is named
OtherPath == "other.md"      \* some other path a command may name
SysPath == "system.txt"      \* a system prompt file
TmpOf(path) == path \o ".tmp"
BakOf(path) == path \o ".bak.ts"
Paths == { ConvPath, TmpOf(ConvPath), BakOf(ConvPath),
           AutoPath, TmpOf(AutoPath), OtherPath, SysPath }

\* the bytes of a file as a text; a JSON document is one atom
FileText(file) == IF file.kind = "raw" THEN file.raw
                  ELSE IF file.kind = "doc" THEN << "{json}" >>
                  ELSE << >>

\* fileExists, os.Stat
fileExists(f, path) == path \in DOMAIN f /\ f[path].kind # "absent"

\* Message
Msg(role, content) == [Role |-> role, Content |-> content]

\* ConversationFile with its TopLevelSettings.  Nil names the fields among
\* "messages", "default" and "models" that are nil (null or missing in the
\* JSON); a nil field is kept empty.
Conversation(system, stream, limit, default, models, messages) ==
    [System |-> system,
     Settings |-> [Stream |-> stream, HistoryLimit |-> limit,
                   Default |-> default, Models |-> models],
     Messages |-> messages,
     Nil |-> {}]

\* the zero value of ConversationFile: its maps and its slice are nil
NoConversation ==
    [Conversation(<< >>, FALSE, 0, EmptyMap, EmptyMap, << >>)
       EXCEPT !.Nil = { "messages", "default", "models" }]

\* A file: absent, a JSON document that parses as a ConversationFile, or
\* any other bytes (raw), which do not parse.
Absent == [kind |-> "absent", doc |-> NoConversation, raw |-> << >>]
DocFile(cf) == [kind |-> "doc", doc |-> cf, raw |-> << >>]
RawFile(text) == [kind |-> "raw", doc |-> NoConversation, raw |-> text]

\* what ioutil.WriteFile leaves behind when it fails after creating the file
Partial == RawFile(<< "{" >>)

\* json.MarshalIndent of a ConversationFile, as the document read back from
\* it: the numbers of the settings maps lose their Go type.
Marshal(cf) ==
    LET conv(m) == [k \in DOMAIN m |-> JSONRoundTrip(m[k])]
    IN [cf EXCEPT !.Settings.Default = conv(@),
                  !.Settings.Models = [mn \in DOMAIN @ |-> conv(@[mn])]]

\* readConversation: ioutil.ReadFile and json.Unmarshal
readConversation(f, path) ==
    IF f[path].kind = "doc" THEN [ok |-> TRUE, cf |-> f[path].doc]
    ELSE [ok |-> FALSE, cf |-> NoConversation]

\* The outcomes of the two system calls of writeConversation.
IOOutcomes == { "ok", "createfail", "writefail", "renamefail" }

\* ioutil.WriteFile(path, b): fails before creating the file, fails after
\* creating it, or writes all of b
WriteFile(f, path, file, io) ==
    IF io = "createfail" THEN f
    ELSE IF io = "writefail" THEN [f EXCEPT ![path] = Partial]
    ELSE [f EXCEPT ![path] = file]

\* os.Rename(from, to): atomic, or fails and changes nothing
Rename(f, from, to, io) ==
    IF io = "renamefail" \/ f[from].kind = "absent" THEN f
    ELSE IF from = to THEN f
    ELSE [f EXCEPT ![to] = f[from], ![from] = Absent]

\* The system calls of writeConversation, in order: the marshalled document
\* is written to path+".tmp", which is then renamed over path.
WriteCall(to, file) == [call |-> "WriteFile", from |-> "", to |-> to, file |-> file]
RenameCall(from, to) == [call |-> "Rename", from |-> from, to |-> to, file |-> Absent]

writeCallsInPlace(path, cf) == << WriteCall(path, DocFile(Marshal(cf))) >>

writeCalls(path, cf) ==
    << WriteCall(TmpOf(path), DocFile(Marshal(cf))),
       RenameCall(TmpOf(path), path) >>

\* whether outcome io makes this call return an error
CallFails(c, io) ==
    IF c.call = "WriteFile" THEN io \in {"createfail", "writefail"}
    ELSE io = "renamefail"

\* the file system after the call
RunCall(f, c, io) ==
    IF c.call = "WriteFile" THEN WriteFile(f, c.to, c.file, io)
    ELSE Rename(f, c.from, c.to, io)

RECURSIVE runCalls(_, _, _, _)
runCalls(f, calls, i, io) ==
    IF i > Len(calls) THEN [fs |-> f, ok |-> TRUE]
    ELSE IF CallFails(calls[i], io) THEN [fs |-> RunCall(f, calls[i], io), ok |-> FALSE]
    ELSE runCalls(RunCall(f, calls[i], io), calls, i + 1, io)

\* writeConversation: the file system after it, and whether it returned nil
writeConversation(f, path, cf, io) == runCalls(f, writeCalls(path, cf), 1, io)

\* appendMessage
withMessage(cf, role, content) ==
    [cf EXCEPT !.Messages = Append(@, Msg(role, content)), !.Nil = @ \ {"messages"}]

appendMessage(f, path, role, content, io) ==
    LET r == readConversation(f, path)
    IN IF ~r.ok THEN [fs |-> f, ok |-> FALSE]
       ELSE writeConversation(f, path, withMessage(r.cf, role, content), io)

\* messageCount
messageCount(f, path) ==
    LET r == readConversation(f, path)
    IN IF ~r.ok THEN [ok |-> FALSE, n |-> 0]
       ELSE [ok |-> TRUE, n |-> Len(r.cf.Messages)]

\* persistSystemToFile
withSystem(cf, content) == [cf EXCEPT !.System = content]

persistSystemToFile(f, path, content, io) ==
    LET r == readConversation(f, path)
    IN IF ~r.ok THEN [fs |-> f, ok |-> FALSE]
       ELSE writeConversation(f, path, withSystem(r.cf, content), io)

\* a variant of the "clear" case that also empties the default settings
withoutMessagesOrDefaults(cf) ==
    [cf EXCEPT !.Messages = << >>, !.Nil = @ \ {"messages"},
               !.Settings.Default = EmptyMap]

\* the "clear" case of handleInteractiveInput
withoutMessages(cf) == [cf EXCEPT !.Messages = << >>, !.Nil = @ \ {"messages"}]

clearMessages(f, path, io) ==
    LET r == readConversation(f, path)
    IN IF ~r.ok THEN [fs |-> f, ok |-> FALSE]
       ELSE writeConversation(f, path, withoutMessages(r.cf), io)

\* the loop of persistSettingsToFile over modelDef.Parameters: the entry of
\* one parameter, given the model's stored settings
PersistedValue(paramDef, valStr, old, had) ==
    LET keep == [set |-> had, v |-> old]
    IN CASE paramDef.Type = "float" ->
              IF ParseFloat(valStr).ok
              THEN [set |-> TRUE, v |-> FloatV(ParseFloat(valStr).v)] ELSE keep
         [] paramDef.Type = "int" ->
              IF Atoi(valStr).ok
              THEN [set |-> TRUE, v |-> IntV(Atoi(valStr).v)] ELSE keep
         [] paramDef.Type \in {"string", "string_array"} ->
              [set |-> TRUE, v |-> StrV(valStr)]
         [] paramDef.Type = "bool" ->
              IF ParseBool(valStr).ok
              THEN [set |-> TRUE, v |-> BoolV(ParseBool(valStr).v)] ELSE keep
         [] OTHER -> keep

\* persistSettingsToFile: the document it writes, given cfg["MODEL"] and the
\* definition of that model.  The assignment cf.Settings.Models[modelName] =
\* modelSettings panics when the document's Models map is nil, and then
\* nothing is written.
withSettingsOf(cf, c, modelName, modelDef) ==
    LET old == IF Has(cf.Settings.Models, modelName)
               THEN cf.Settings.Models[modelName] ELSE EmptyMap
        entry(key) == IF Has(c, ToUpper(key))
                      THEN PersistedValue(modelDef.Parameters[key], c[ToUpper(key)],
                                          IF Has(old, key) THEN old[key] ELSE NilV,
                                          Has(old, key))
                      ELSE [set |-> Has(old, key),
                            v |-> IF Has(old, key) THEN old[key] ELSE NilV]
        keys == { k \in (DOMAIN old) \cup (DOMAIN modelDef.Parameters) :
                    IF k \in DOMAIN modelDef.Parameters THEN entry(k).set ELSE TRUE }
        modelSettings == [k \in keys |->
                            IF k \in DOMAIN modelDef.Parameters THEN entry(k).v
                            ELSE old[k]]
        streamStr == IF Has(c, "STREAM") THEN c["STREAM"] ELSE ""
        limitStr == IF Has(c, "HISTORY_LIMIT") THEN c["HISTORY_LIMIT"] ELSE ""
    IN [panic |-> "models" \in cf.Nil,
        cf |-> IF "models" \in cf.Nil THEN cf
               ELSE [cf EXCEPT !.Settings.Models = Put(@, modelName, modelSettings),
                               !.Settings.Stream = (streamStr = "true"),
                               !.Settings.HistoryLimit =
                                   mustAtoi(limitStr, defaultHistoryLimit)]]

withSettings(cf, c) == withSettingsOf(cf, c, c["MODEL"], GetModelDefinition(c["MODEL"]))

\* panic: the process died in the call (exit status 2)
persistSettingsToFile(f, path, c, io) ==
    LET r == readConversation(f, path)
        ws == withSettings(r.cf, c)
        w == writeConversation(f, path, ws.cf, io)
    IN IF ~r.ok THEN [fs |-> f, ok |-> FALSE, panic |-> FALSE]
       ELSE IF ws.panic THEN [fs |-> f, ok |-> FALSE, panic |-> TRUE]
       ELSE [fs |-> w.fs, ok |-> w.ok, panic |-> FALSE]

\* copyFile: os.Open(src), os.Create(dst), io.Copy, Sync.  os.Create
\* truncates dst before the copy reads src; when it fails nothing changes.
\* When io.Copy fails dst stays as os.Create left it; Sync runs after the
\* whole copy was written, so when it fails dst holds the copy.
copyFile(f, src, dst, io) ==
    IF f[src].kind = "absent" THEN [fs |-> f, ok |-> FALSE]
    ELSE IF io = "createfail" THEN [fs |-> f, ok |-> FALSE]
    ELSE LET created == [f EXCEPT ![dst] = RawFile(<< >>)]
         IN IF io = "writefail" THEN [fs |-> created, ok |-> FALSE]
            ELSE [fs |-> [created EXCEPT ![dst] = created[src]], ok |-> io # "syncfail"]

----------------------------------------------------------------------------
(* The response decoders.                                                  *)

\* One line of a streamed body after the "data: " prefix is cut and the JSON
\* is parsed: skipped (blank, [DONE], unparsable or without choices), or the
\* reasoning and content strings of choices[0] ("" when absent).
Skip == [skip |-> TRUE, reasoning |-> "", content |-> ""]
Delta(r, c) == [skip |-> FALSE, reasoning |-> r, content |-> c]

BeginText == << BeginMark, NL >>
EndText == << NL, EndMark, NL, NL >>

\* the body of the scanner loop of handleStream, from chunk i on
RECURSIVE streamLoop(_, _, _, _)
streamLoop(chunks, i, buf, inReasoning) ==
    IF i > Len(chunks)
    THEN [buf |-> buf, inReasoning |-> inReasoning]
    ELSE LET ch == chunks[i]
             openNow == ~ch.skip /\ ch.reasoning # "" /\ ~inReasoning
             b1 == IF ~ch.skip /\ ch.reasoning # ""
                   THEN (IF openNow THEN buf \o BeginText ELSE buf) \o << ch.reasoning >>
                   ELSE buf
             in1 == inReasoning \/ openNow
             closeNow == ~ch.skip /\ ch.content # "" /\ in1
             b2 == IF ~ch.skip /\ ch.content # ""
                   THEN (IF closeNow THEN b1 \o EndText ELSE b1) \o << ch.content >>
                   ELSE b1
             in2 == in1 /\ ~closeNow
         IN streamLoop(chunks, i + 1, b2, in2)

\* handleStream: the text returned, and whether scanner.Err() was non-nil
handleStreamUnclosed(chunks, scanErr) ==
    [text |-> streamLoop(chunks, 1, << >>, FALSE).buf, err |-> scanErr]

handleStream(chunks, scanErr) ==
    LET r == streamLoop(chunks, 1, << >>, FALSE)
    IN [text |-> IF r.inReasoning THEN r.buf \o EndText ELSE r.buf,
        err |-> scanErr]

\* A non-streamed body: whether it parses, and the strings found at
\* choices[0].delta and choices[0].message ("" when absent).
Body(valid, deltaR, deltaC, msgR, msgC) ==
    [valid |-> valid, deltaR |-> deltaR, deltaC |-> deltaC,
     msgR |-> msgR, msgC |-> msgC]

\* handleNonStream
handleNonStream(body) ==
    LET reasoning == IF body.deltaR # "" THEN body.deltaR ELSE body.msgR
        content == IF body.deltaC # "" THEN body.deltaC ELSE body.msgC
        out == (IF reasoning # ""
                THEN << BeginMark, NL, reasoning, NL, EndMarkNoSlash, NL, NL >>
                ELSE << >>)
               \o (IF content # "" THEN << content >> ELSE << >>)
    IN IF ~body.valid THEN [text |-> << >>, err |-> TRUE]
       ELSE IF out = << >> THEN [text |-> << >>, err |-> TRUE]
       ELSE [text |-> out, err |-> FALSE]

\* filterThinkingBlock: ReplaceAllString of the regexp
\*   (?s)\[Begin of Assistant Reasoning\].*?\[/End of Assistant Reasoning\]\s*\n?
\* by "": leftmost matches, each from a begin marker to the first end marker
\* after it and through the white space that follows.
RECURSIVE filterFrom(_, _)
filterFrom(text, i) ==
    IF i > Len(text) THEN << >>
    ELSE IF text[i] = BeginMark /\ \E j \in (i + 1)..Len(text) : text[j] = EndMark
    THEN LET j == CHOOSE j \in (i + 1)..Len(text) :
                     /\ text[j] = EndMark
                     /\ \A k \in (i + 1)..(j - 1) : text[k] # EndMark
             last == CHOOSE m \in j..Len(text) :
                     /\ \A k \in (j + 1)..m : IsSpace(text[k])
                     /\ (m = Len(text) \/ ~IsSpace(text[m + 1]))
         IN filterFrom(text, last + 1)
    ELSE << text[i] >> \o filterFrom(text, i + 1)

filterThinkingBlock(content) == filterFrom(content, 1)

\* strings.Join(parts, "\n\n---\n\n")
RECURSIVE JoinTexts(_)
JoinTexts(parts) ==
    IF Len(parts) = 0 THEN << >>
    ELSE IF Len(parts) = 1 THEN parts[1]
    ELSE parts[1] \o << NL, NL, "---", NL, NL >> \o JoinTexts(Tail(parts))

\* the contents of the assistant messages, in transcript order
RECURSIVE assistantContents(_)
assistantContents(messages) ==
    IF messages = << >> THEN << >>
    ELSE (IF Head(messages).Role = "assistant" THEN << Head(messages).Content >> ELSE << >>)
         \o assistantContents(Tail(messages))

\* a variant of exportLastN that leaves the responses in the order of the
\* backward scan
exportLastNUnreversed(f, n, convFile, targetFile, filterThinking, io) ==
    LET r == readConversation(f, convFile)
        all == assistantContents(r.cf.Messages)
        k == IF n >= 1 /\ n < Len(all) THEN n ELSE Len(all)
        picked == [i \in 1..k |-> all[Len(all) - i + 1]]
        shown == [i \in 1..Len(picked) |->
                    IF filterThinking THEN filterThinkingBlock(picked[i]) ELSE picked[i]]
    IN IF ~r.ok \/ Len(all) = 0 THEN [fs |-> f, ok |-> FALSE]
       ELSE [fs |-> WriteFile(f, targetFile, RawFile(JoinTexts(shown)), io),
             ok |-> io \notin {"createfail", "writefail"}]

\* exportLastN: ok is whether it returned nil
exportLastN(f, n, convFile, targetFile, filterThinking, io) ==
    LET r == readConversation(f, convFile)
        all == assistantContents(r.cf.Messages)
        \* the backward scan stops when len(aiResponses) == n, which a
        \* non-positive n never equals
        k == IF n >= 1 /\ n < Len(all) THEN n ELSE Len(all)
        picked == SubSeq(all, Len(all) - k + 1, Len(all))
        shown == [i \in 1..Len(picked) |->
                    IF filterThinking THEN filterThinkingBlock(picked[i]) ELSE picked[i]]
    IN IF ~r.ok \/ Len(all) = 0 THEN [fs |-> f, ok |-> FALSE]
       ELSE [fs |-> WriteFile(f, targetFile, RawFile(JoinTexts(shown)), io),
             ok |-> io \notin {"createfail", "writefail"}]

\* a variant of exportNth that counts from the start of the transcript
exportNthFromStart(f, n, convFile, targetFile, filterThinking, io) ==
    LET r == readConversation(f, convFile)
        all == assistantContents(r.cf.Messages)
        index == n - 1
        content == IF filterThinking THEN filterThinkingBlock(all[index + 1])
                   ELSE all[index + 1]
    IN IF ~r.ok \/ Len(all) = 0 THEN [fs |-> f, ok |-> FALSE]
       ELSE IF index < 0 \/ index >= Len(all) THEN [fs |-> f, ok |-> FALSE]
       ELSE [fs |-> WriteFile(f, targetFile, RawFile(content), io),
             ok |-> io \notin {"createfail", "writefail"}]

\* exportNth
exportNth(f, n, convFile, targetFile, filterThinking, io) ==
    LET r == readConversation(f, convFile)
        all == assistantContents(r.cf.Messages)
        index == Len(all) - n     \* 0-based
        content == IF filterThinking THEN filterThinkingBlock(all[index + 1])
                   ELSE all[index + 1]
    IN IF ~r.ok \/ Len(all) = 0 THEN [fs |-> f, ok |-> FALSE]
       ELSE IF index < 0 \/ index >= Len(all) THEN [fs |-> f, ok |-> FALSE]
       ELSE [fs |-> WriteFile(f, targetFile, RawFile(content), io),
             ok |-> io \notin {"createfail", "writefail"}]

----------------------------------------------------------------------------
(* main: the option loop.                                                  *)

\* One element of os.Args[1:].  A flag (it starts with "-") is split at its
\* first "=" into key and val; any other argument is kept whole in val.
Flag(key) == [flag |-> TRUE, key |-> key, eq |-> FALSE, val |-> ""]
FlagEq(key, val) == [flag |-> TRUE, key |-> key, eq |-> TRUE, val |-> val]
Word(val) == [flag |-> FALSE, key |-> "", eq |-> FALSE, val |-> val]

\* the argument as typed
RawOf(a) == IF ~a.flag THEN a.val
            ELSE IF a.eq THEN a.key \o "=" \o a.val
            ELSE a.key

\* the default cfg map of main
defaultCfg ==
    [BASE_URL |-> "https://integrate.api.nvidia.com/v1",
     MODEL |-> defaultModel,
     TEMPERATURE |-> "1",
     TOP_P |-> "1",
     FREQUENCY_PENALTY |-> "0",
     PRESENCE_PENALTY |-> "0",
     MAX_TOKENS |-> "4096",
     STREAM |-> "true",
     REASONING_EFFORT |-> "low",
     STOP |-> "",
     HISTORY_DIR |-> "~/.cache/nvidia-chat",
     HISTORY_LIMIT |-> FormatD(defaultHistoryLimit)]

\* the cases of the option switch that store their value in cfg
CfgOptions ==
    [ k \in { "-m", "--model", "-T", "--temperature", "-P", "--top-p",
              "-f", "--frequency-penalty", "-r", "--presence-penalty",
              "-M", "--max-tokens", "-L", "--limit", "--reasoning", "--stop" } |->
        CASE k \in {"-m", "--model"} -> "MODEL"
          [] k \in {"-T", "--temperature"} -> "TEMPERATURE"
          [] k \in {"-P", "--top-p"} -> "TOP_P"
          [] k \in {"-f", "--frequency-penalty"} -> "FREQUENCY_PENALTY"
          [] k \in {"-r", "--presence-penalty"} -> "PRESENCE_PENALTY"
          [] k \in {"-M", "--max-tokens"} -> "MAX_TOKENS"
          [] k \in {"-L", "--limit"} -> "HISTORY_LIMIT"
          [] k = "--reasoning" -> "REASONING_EFFORT"
          [] OTHER -> "STOP" ]

\* the cases that store their value in a local of main
LocalOptions == { "-s", "--sys-prompt-file", "-k", "--access-token",
                  "--prompt", "--modelinfo" }

\* the locals of main before the option loop; exit is -1 while main runs
ParseStart ==
    [exit |-> -1, cfg |-> defaultCfg, provided |-> {}, positionalArgs |-> << >>,
     ACCESS_TOKEN |-> "", SYS_PROMPT_FILE |-> "", PERSIST_SYSTEM |-> FALSE,
     SAVE_SETTINGS |-> FALSE, LIST_ONLY |-> FALSE, PROMPT_MODE |-> "",
     MODEL_INFO_FLAG |-> ""]

\* the option loop of main from rawArgs[i] on (1-based)
RECURSIVE ParseFrom(_, _, _)
ParseFrom(raw, i, st) ==
    IF i > Len(raw) THEN st
    ELSE LET a == raw[i] IN
    IF a.flag /\ a.key = "--" /\ ~a.eq
    THEN [st EXCEPT !.positionalArgs =
             @ \o [j \in 1..(Len(raw) - i) |-> RawOf(raw[i + j])]]
    ELSE IF ~a.flag
    THEN ParseFrom(raw, i + 1, [st EXCEPT !.positionalArgs = Append(@, a.val)])
    ELSE LET key == a.key
             needNext == a.val = ""
             missing == needNext /\ i + 1 > Len(raw)
             val == IF ~needNext THEN a.val
                    ELSE IF missing THEN "" ELSE RawOf(raw[i + 1])
             next == IF needNext THEN i + 2 ELSE i + 1
         IN
         IF key \in DOMAIN CfgOptions
         THEN IF missing THEN [st EXCEPT !.exit = 1]
              ELSE ParseFrom(raw, next,
                       [st EXCEPT !.cfg = Put(@, CfgOptions[key], val),
                                  !.provided = @ \cup {CfgOptions[key]}])
         ELSE IF key \in LocalOptions
         THEN IF missing THEN [st EXCEPT !.exit = 1]
              ELSE ParseFrom(raw, next,
                       IF key \in {"-s", "--sys-prompt-file"}
                       THEN [st EXCEPT !.SYS_PROMPT_FILE = val,
                                       !.provided = @ \cup {"SYS_PROMPT_FILE"}]
                       ELSE IF key \in {"-k", "--access-token"}
                       THEN [st EXCEPT !.ACCESS_TOKEN = val]
                       ELSE IF key = "--prompt"
                       THEN [st EXCEPT !.PROMPT_MODE = val]
                       ELSE [st EXCEPT !.MODEL_INFO_FLAG = val])
         ELSE IF key = "--stream"
         THEN IF a.val \in {"true", "false"}
              THEN ParseFrom(raw, i + 1,
                       [st EXCEPT !.cfg = Put(@, "STREAM", a.val),
                                  !.provided = @ \cup {"STREAM"}])
              ELSE [st EXCEPT !.exit = 1]
         ELSE IF key = "-S"
         THEN ParseFrom(raw, i + 1, [st EXCEPT !.PERSIST_SYSTEM = TRUE])
         ELSE IF key = "--no-stream"
         THEN ParseFrom(raw, i + 1,
                  [st EXCEPT !.cfg = Put(@, "STREAM", "false"),
                             !.provided = @ \cup {"STREAM"}])
         ELSE IF key = "--save-settings"
         THEN ParseFrom(raw, i + 1, [st EXCEPT !.SAVE_SETTINGS = TRUE])
         ELSE IF key \in {"-l", "--list"}
         THEN ParseFrom(raw, i + 1, [st EXCEPT !.LIST_ONLY = TRUE])
         ELSE IF key \in {"-h", "--help"}
         THEN [st EXCEPT !.exit = 0]
         ELSE [st EXCEPT !.exit = 1]      \* Unknown option

ParseOptions(raw) == ParseFrom(raw, 1, ParseStart)

\* getAPIKeyFromEnv: the first non-empty variable of apiEnvNames
RECURSIVE firstNonEmpty(_, _, _)
firstNonEmpty(e, names, i) ==
    IF i > Len(names) THEN ""
    ELSE IF e[names[i]] # "" THEN e[names[i]]
    ELSE firstNonEmpty(e, names, i + 1)

getAPIKeyFromEnvLast(e) ==
    LET S == { i \in 1..Len(apiEnvNames) : e[apiEnvNames[i]] # "" }
    IN IF S = {} THEN ""
       ELSE e[apiEnvNames[CHOOSE i \in S : \A j \in S : j <= i]]

getAPIKeyFromEnv(e) == firstNonEmpty(e, apiEnvNames, 1)

\* main's API key selection
selectAPIKeyEnvFirst(accessToken, e) ==
    IF getAPIKeyFromEnv(e) # "" THEN getAPIKeyFromEnv(e) ELSE accessToken

selectAPIKey(accessToken, e) ==
    IF accessToken = "" THEN getAPIKeyFromEnv(e) ELSE accessToken

----------------------------------------------------------------------------
(* Settings: the file's values as defaults, validation, the request body.  *)

\* int(v) of a float64, in hundredths: truncation toward zero
TruncToInt(h) == IF h < 0 THEN -((-h) \div 100) ELSE h \div 100

\* the type switch of applyFileSettingsAsDefaults: the cfg string of a stored
\* value, when the value has the Go type the parameter's type asks for
FileValueString(paramDef, value) ==
    CASE paramDef.Type = "float" /\ value.t = "float" -> Ok(FormatG(value.n))
      [] paramDef.Type = "int" /\ value.t = "float" -> Ok(FormatD(TruncToInt(value.n)))
      [] paramDef.Type = "int" /\ value.t = "int" -> Ok(FormatD(value.n))
      [] paramDef.Type \in {"string", "string_array"} /\ value.t = "string" -> Ok(value.s)
      [] paramDef.Type = "bool" /\ value.t = "bool" -> Ok(FormatBool(value.b))
      [] OTHER -> Err

\* applyFileSettingsAsDefaults, given the conversation read from the file and
\* the definition of cfg["MODEL"]
applyFileSettingsOf(cf, c, prov, modelDef) ==
    LET modelName == c["MODEL"]
        settings == IF Has(cf.Settings.Models, modelName)
                    THEN cf.Settings.Models[modelName]
                    ELSE cf.Settings.Default
        fromFile(key) == /\ ToUpper(key) \notin prov
                         /\ Has(settings, key)
                         /\ FileValueString(modelDef.Parameters[key], settings[key]).ok
        set == { ToUpper(key) : key \in { k \in DOMAIN modelDef.Parameters : fromFile(k) } }
        keyOf(ck) == CHOOSE key \in DOMAIN modelDef.Parameters : ToUpper(key) = ck
        c1 == [ck \in (DOMAIN c) \cup set |->
                 IF ck \in set
                 THEN FileValueString(modelDef.Parameters[keyOf(ck)], settings[keyOf(ck)]).v
                 ELSE c[ck]]
        c2 == IF "STREAM" \notin prov
              THEN Put(c1, "STREAM", FormatBool(cf.Settings.Stream))
              ELSE c1
    IN IF "HISTORY_LIMIT" \notin prov /\ cf.Settings.HistoryLimit # 0
       THEN Put(c2, "HISTORY_LIMIT", FormatD(cf.Settings.HistoryLimit))
       ELSE c2

\* a variant that lets the file's values replace those given on the command line
applyFileSettingsIgnoringProvided(cf, c, prov) ==
    applyFileSettingsOf(cf, c, {}, GetModelDefinition(c["MODEL"]))

applyFileSettingsAsDefaults(cf, c, prov) ==
    applyFileSettingsOf(cf, c, prov, GetModelDefinition(c["MODEL"]))

\* validateNumericRanges: TRUE when it returns nil
validateNumericRanges(c) ==
    LET t == ParseFloat(c["TEMPERATURE"])
        tp == ParseFloat(c["TOP_P"])
        freq == ParseFloat(c["FREQUENCY_PENALTY"])
        pres == ParseFloat(c["PRESENCE_PENALTY"])
        mt == Atoi(c["MAX_TOKENS"])
    IN /\ t.ok /\ t.v >= 0 /\ t.v <= 100
       /\ tp.ok /\ tp.v >= 1 /\ tp.v <= 100
       /\ freq.ok /\ freq.v >= -200 /\ freq.v <= 200
       /\ pres.ok /\ pres.v >= -200 /\ pres.v <= 200
       /\ mt.ok /\ mt.v >= 1 /\ mt.v <= 4096
       /\ c["REASONING_EFFORT"] \in {"low", "medium", "high"}
       /\ c["STREAM"] \in {"true", "false"}

\* the value of chat_template_kwargs in a request body
KwargsV(thinking) == [t |-> "kwargs", n |-> 0, s |-> "", b |-> thinking]

\* the loop of buildPayload over modelDef.Parameters: the value sent for one
\* parameter, if any
PayloadValue(modelName, key, paramDef, c) ==
    LET valStr == c[ToUpper(key)] IN
    IF paramDef.APIKey = "" \/ ~Has(c, ToUpper(key)) THEN Err
    ELSE CASE paramDef.Type = "float" ->
                IF ParseFloat(valStr).ok THEN Ok(FloatV(ParseFloat(valStr).v)) ELSE Err
           [] paramDef.Type = "int" ->
                IF ~Atoi(valStr).ok THEN Err
                ELSE IF key = "seed" /\ Atoi(valStr).v = 0
                        /\ modelName # "deepseek-ai/deepseek-v3.1" THEN Err
                ELSE Ok(IntV(Atoi(valStr).v))
           [] paramDef.Type \in {"string", "string_array"} ->
                IF key = "stop" /\ valStr = "" THEN Err ELSE Ok(StrV(valStr))
           [] paramDef.Type = "bool" ->
                IF ParseBool(valStr).ok THEN Ok(BoolV(ParseBool(valStr).v)) ELSE Err
           [] OTHER -> Err

\* a variant of the loop: every cfg entry named like a setting is sent
payloadFieldsAllCfg(c) ==
    LET names == { k \in { "temperature", "top_p", "frequency_penalty",
                           "presence_penalty", "max_tokens", "stop",
                           "reasoning_effort", "seed", "thinking" } :
                     Has(c, ToUpper(k)) }
    IN [k \in names |-> StrV(c[ToUpper(k)])]

\* the fields buildPayload adds in its loop, by API field name
payloadFieldsOf(c, modelName, modelDef) ==
    LET sent == { key \in DOMAIN modelDef.Parameters :
                    PayloadValue(modelName, key, modelDef.Parameters[key], c).ok }
        apiKeys == { modelDef.Parameters[key].APIKey : key \in sent }
        keyOf(ak) == CHOOSE key \in sent : modelDef.Parameters[key].APIKey = ak
    IN [ak \in apiKeys |->
          PayloadValue(modelName, keyOf(ak), modelDef.Parameters[keyOf(ak)], c).v]

payloadFields(c) == payloadFieldsOf(c, c["MODEL"], GetModelDefinition(c["MODEL"]))

\* buildPayload: the request body as a map of its top-level fields, given the
\* fields of the loop; the messages sit beside it.  The loop runs after
\* model, messages and stream are set; chat_template_kwargs and the nil seed
\* of deepseek-v3.1 are set after the loop.
payloadOf(c, modelName, modelDef, loop, thinking) ==
    LET kwargs == modelDef.ChatTemplateKwargsThinking /\ thinking.ok
        nilSeed == modelName = "deepseek-ai/deepseek-v3.1" /\ ~Has(loop, "seed")
        keys == {"model", "messages", "stream"} \cup DOMAIN loop
                \cup (IF kwargs THEN {"chat_template_kwargs"} ELSE {})
                \cup (IF nilSeed THEN {"seed"} ELSE {})
    IN [k \in keys |->
          IF kwargs /\ k = "chat_template_kwargs" THEN KwargsV(thinking.v)
          ELSE IF nilSeed /\ k = "seed" THEN NilV
          ELSE IF k \in DOMAIN loop THEN loop[k]
          ELSE IF k = "model" THEN StrV(modelName)
          ELSE IF k = "messages" THEN StrV("<messages>")
          ELSE BoolV(c["STREAM"] = "true")]

buildPayload(c, messages) ==
    [model |-> c["MODEL"],
     fields |-> payloadOf(c, c["MODEL"], GetModelDefinition(c["MODEL"]), payloadFields(c),
                          ParseBool(IF Has(c, "THINKING") THEN c["THINKING"] ELSE "")),
     messages |-> messages]

----------------------------------------------------------------------------
(* ensureHistoryFileStructure.                                             *)

\* the defaults of a model definition, as a settings map
DefaultsOf(modelDef) ==
    [name \in DOMAIN modelDef.Parameters |-> modelDef.Parameters[name].Default]

\* the document a missing conversation file is created with
FreshConversation(c) ==
    Conversation(<< >>,
                 c["STREAM"] = "true",
                 mustAtoi(c["HISTORY_LIMIT"], 0),
                 DefaultsOf(GetModelDefinition("others")),
                 defaultModel :> [temperature |-> FloatV(100),
                                  top_p |-> FloatV(100),
                                  frequency_penalty |-> FloatV(0),
                                  presence_penalty |-> FloatV(0),
                                  max_tokens |-> IntV(4096),
                                  reasoning_effort |-> StrV("low")],
                 << >>)

\* a variant of ensureHistoryFileStructure that writes the fresh document over
\* a malformed file without renaming it first
ensureHistoryFileStructureInPlace(f, path, c, io) ==
    LET create(g) ==
            IF io = "createfail" THEN [fs |-> g, ok |-> FALSE, returns |-> TRUE]
            ELSE [fs |-> WriteFile(g, path, DocFile(Marshal(FreshConversation(c))), io),
                  ok |-> io # "writefail", returns |-> TRUE]
        malformed == f[path].kind = "raw"
                     \/ (f[path].kind = "doc" /\ f[path].doc.Nil # {})
    IN IF f[path].kind = "absent" \/ malformed THEN create(f)
       ELSE [fs |-> f, ok |-> TRUE, returns |-> TRUE]

\* ensureHistoryFileStructure.  A missing file is written in place with
\* ioutil.WriteFile.  A file that does not parse, or parses with a nil
\* field, is renamed to the backup path and the function calls itself; when
\* that rename fails the file is still there and the calls never end.
ensureHistoryFileStructure(f, path, c, io) ==
    LET create(g) ==
            IF io = "createfail" THEN [fs |-> g, ok |-> FALSE, returns |-> TRUE]
            ELSE [fs |-> WriteFile(g, path, DocFile(Marshal(FreshConversation(c))), io),
                  ok |-> io # "writefail", returns |-> TRUE]
        malformed == f[path].kind = "raw"
                     \/ (f[path].kind = "doc" /\ f[path].doc.Nil # {})
    IN IF f[path].kind = "absent" THEN create(f)
       ELSE IF malformed
       THEN IF io = "renamefail"
            THEN [fs |-> f, ok |-> FALSE, returns |-> FALSE]
            ELSE create(Rename(f, path, BakOf(path), io))
       ELSE [fs |-> f, ok |-> TRUE, returns |-> TRUE]

----------------------------------------------------------------------------
(* Requests.                                                               *)

\* a variant that prefers the persisted system prompt
effectiveSystemFileFirst(sysPromptContent, cf) ==
    IF cf.System # << >> THEN cf.System ELSE sysPromptContent

\* "precedence -s content > persisted .system in file > none"
effectiveSystem(sysPromptContent, cf) ==
    IF sysPromptContent # << >> THEN sysPromptContent ELSE cf.System

systemMessages(text) ==
    IF text # << >> THEN << Msg("system", text) >> ELSE << >>

\* the messages processMessage sends: the thinking control message of the
\* model, the system prompt, the stored messages
thinkingMessagesOf(c, modelDef, thinkingEnabled) ==
    IF modelDef.PrependedSystemMessageOnThinking = "" THEN << >>
    ELSE IF thinkingEnabled.ok /\ thinkingEnabled.v
    THEN << Msg("system", << modelDef.PrependedSystemMessageOnThinking >>) >>
    ELSE IF c["MODEL"] = "nvidia/llama-3.3-nemotron-super-49b-v1.5"
    THEN << Msg("system", << "/no_think" >>) >>
    ELSE << >>

thinkingMessages(c) ==
    thinkingMessagesOf(c, GetModelDefinition(c["MODEL"]),
                       ParseBool(IF Has(c, "THINKING") THEN c["THINKING"] ELSE ""))

----------------------------------------------------------------------------
(* main, from its first line to the first read of standard input or the   *)
(* call of processMessage / processSinglePrompt.                           *)

NoRun == [ACCESS_TOKEN |-> "", sysPromptContent |-> << >>, convFile |-> "",
          mode |-> "", promptText |-> << >>, lines |-> << >>]

\* what standard input holds when --prompt - reads it
StdinText == << "piped" >>

\* what main leaves behind when it stops or reaches the loop
Started(st, p, code, g, c, r) ==
    [pc |-> p, exit |-> code, fs |-> g, cfg |-> c, provided |-> st.provided, run |-> r]

\* interactive mode from the limit check on, given cfg after the file's
\* settings were applied (c1) and the message count
\* a variant of startInteractive that starts the loop on a full file
startInteractiveOnFull(st, r0, sys, g, c1, count, limit, saved, ioP) ==
    LET persisted == IF st.PERSIST_SYSTEM
                     THEN persistSystemToFile(saved.fs, r0.convFile, sys, ioP)
                     ELSE [fs |-> saved.fs, ok |-> TRUE]
        failed == IF saved.panic THEN 2 ELSE 1
    IN IF st.PERSIST_SYSTEM /\ sys = << >> THEN Started(st, "exited", 1, g, c1, r0)
       ELSE IF ~count.ok THEN Started(st, "exited", 1, g, c1, r0)
       ELSE IF limit <= 0 THEN Started(st, "exited", 1, g, c1, r0)
       ELSE IF ~saved.ok THEN Started(st, "exited", failed, saved.fs, c1, r0)
       ELSE IF ~persisted.ok THEN Started(st, "exited", 1, persisted.fs, c1, r0)
       ELSE Started(st, "prompt", -1, persisted.fs, c1, [r0 EXCEPT !.mode = "interactive"])

startInteractive(st, r0, sys, g, c1, count, limit, saved, ioP) ==
    LET persisted == IF st.PERSIST_SYSTEM
                     THEN persistSystemToFile(saved.fs, r0.convFile, sys, ioP)
                     ELSE [fs |-> saved.fs, ok |-> TRUE]
        failed == IF saved.panic THEN 2 ELSE 1
    IN IF st.PERSIST_SYSTEM /\ sys = << >> THEN Started(st, "exited", 1, g, c1, r0)
       ELSE IF ~count.ok THEN Started(st, "exited", 1, g, c1, r0)
       ELSE IF limit <= 0 THEN Started(st, "exited", 1, g, c1, r0)
       ELSE IF count.n >= limit THEN Started(st, "exited", 1, g, c1, r0)
       ELSE IF ~saved.ok THEN Started(st, "exited", failed, saved.fs, c1, r0)
       ELSE IF ~persisted.ok THEN Started(st, "exited", 1, persisted.fs, c1, r0)
       ELSE Started(st, "prompt", -1, persisted.fs, c1, [r0 EXCEPT !.mode = "interactive"])

\* main after applyFileSettingsAsDefaults
startConfigured(st, r0, sys, promptText, g, c1, saved, ioP) ==
    IF ~validateNumericRanges(c1) THEN Started(st, "exited", 1, g, c1, r0)
    ELSE IF st.PROMPT_MODE # ""
    THEN IF ~saved.ok
         THEN Started(st, "exited", IF saved.panic THEN 2 ELSE 1, saved.fs, c1, r0)
         ELSE Started(st, "promptmode", -1, saved.fs, c1,
                      [r0 EXCEPT !.mode = "promptfile", !.promptText = promptText])
    ELSE startInteractive(st, r0, sys, g, c1, messageCount(g, r0.convFile),
                          mustAtoi(c1["HISTORY_LIMIT"], 0), saved, ioP)

\* main after ensureHistoryFileStructure returned en
startWithFile(st, r0, sys, promptText, en, rd, c1, ioP) ==
    IF ~en.returns THEN Started(st, "exited", 2, en.fs, st.cfg, r0)   \* stack overflow
    ELSE IF ~en.ok THEN Started(st, "exited", 1, en.fs, st.cfg, r0)
    ELSE startConfigured(st, r0, sys, promptText, en.fs, c1,
                         IF st.SAVE_SETTINGS
                         THEN persistSettingsToFile(en.fs, r0.convFile, c1, ioP)
                         ELSE [fs |-> en.fs, ok |-> TRUE, panic |-> FALSE],
                         ioP)

startApplied(st, r0, sys, promptText, en, rd, ioP) ==
    startWithFile(st, r0, sys, promptText, en, rd,
                  IF rd.ok THEN applyFileSettingsAsDefaults(rd.cf, st.cfg, st.provided)
                  ELSE st.cfg,
                  ioP)

startEnsured(st, r0, sys, promptText, en, ioP) ==
    startApplied(st, r0, sys, promptText, en, readConversation(en.fs, r0.convFile), ioP)

\* main after the option loop returned st
startParsed(st, key, e, f, ioE, ioP) ==
    LET convArg == IF Len(st.positionalArgs) > 0 THEN st.positionalArgs[1] ELSE ""
        sysMissing == st.SYS_PROMPT_FILE # "" /\ ~fileExists(f, st.SYS_PROMPT_FILE)
        sys == IF st.SYS_PROMPT_FILE # "" /\ ~sysMissing
               THEN FileText(f[st.SYS_PROMPT_FILE]) ELSE << >>
        promptText == IF st.PROMPT_MODE = "-" THEN StdinText
                      ELSE IF fileExists(f, st.PROMPT_MODE) THEN FileText(f[st.PROMPT_MODE])
                      ELSE << st.PROMPT_MODE >>
        interactive == st.PROMPT_MODE = ""
        convFile == IF convArg = "" /\ interactive THEN AutoPath ELSE convArg
        r0 == [NoRun EXCEPT !.ACCESS_TOKEN = key, !.sysPromptContent = sys,
                            !.convFile = convFile]
    IN IF st.exit # -1 THEN Started(st, "exited", st.exit, f, st.cfg, NoRun)
       ELSE IF st.LIST_ONLY THEN Started(st, "exited", 0, f, st.cfg, NoRun)
       ELSE IF st.MODEL_INFO_FLAG # ""
       THEN Started(st, "exited",
                    IF modelDefined(st.MODEL_INFO_FLAG) THEN 0 ELSE 1,
                    f, st.cfg, NoRun)
       ELSE IF key = "" THEN Started(st, "exited", 1, f, st.cfg, NoRun)
       ELSE IF sysMissing THEN Started(st, "exited", 1, f, st.cfg, r0)
       ELSE IF ~interactive /\ convFile = ""
       THEN Started(st, "promptmode", -1, f, st.cfg,
                    [r0 EXCEPT !.mode = "promptnofile", !.promptText = promptText])
       ELSE startEnsured(st, r0, sys, promptText,
                         ensureHistoryFileStructure(f, convFile, st.cfg, ioE), ioP)

startKeyed(st, e, f, ioE, ioP) ==
    startParsed(st, selectAPIKey(st.ACCESS_TOKEN, e), e, f, ioE, ioP)

mainStartup(raw, e, f, ioE, ioP) == startKeyed(ParseOptions(raw), e, f, ioE, ioP)

----------------------------------------------------------------------------
(* Interactive commands that change the session settings.                  *)

\* fmt.Sprintf of a parameter's default in the "unset" branch: %g for a
\* float64, %v for anything else
DefaultString(v) ==
    CASE v.t = "float" -> FormatG(v.n)
      [] v.t = "int" -> FormatD(v.n)
      [] v.t = "string" -> v.s
      [] v.t = "bool" -> FormatBool(v.b)
      [] OTHER -> "<nil>"

\* validateParameter: TRUE when it returns nil
validateParameter(paramName, value, modelDef) ==
    IF paramName \notin DOMAIN modelDef.Parameters
    THEN IF paramName = "stream" THEN ParseBool(value).ok
         ELSE IF paramName = "history_limit" THEN Atoi(value).ok /\ Atoi(value).v >= 0
         ELSE FALSE
    ELSE LET param == modelDef.Parameters[paramName]
             ranged == param.Min # 0 \/ param.Max # 0
         IN CASE param.Type = "float" ->
                   /\ ParseFloat(value).ok
                   /\ ~(ranged /\ (ParseFloat(value).v < param.Min
                                   \/ ParseFloat(value).v > param.Max))
              [] param.Type = "int" ->
                   /\ Atoi(value).ok
                   /\ ~(ranged /\ (100 * Atoi(value).v < param.Min
                                   \/ 100 * Atoi(value).v > param.Max))
              [] param.Type = "string" ->
                   param.Options = {} \/ value \in param.Options
              [] param.Type = "bool" -> ParseBool(value).ok
              [] OTHER -> TRUE

\* whether commandName is a dynamic parameter command of the session
isSettingCommand(commandName, c) ==
    \/ commandName \in DOMAIN GetModelDefinition(c["MODEL"]).Parameters
    \/ commandName \in {"stream", "history_limit"}

\* the dynamic parameter branch of handleInteractiveInput: cfg after
\* "/commandName value"
setParameterOf(commandName, value, c, modelDef) ==
    LET configKey == ToUpper(commandName)
    IN IF value = "unset"
       THEN IF commandName \notin DOMAIN modelDef.Parameters
            THEN IF commandName = "stream" THEN Put(c, "STREAM", FormatBool(TRUE))
                 ELSE IF commandName = "history_limit"
                 THEN Put(c, "HISTORY_LIMIT", FormatD(defaultHistoryLimit))
                 ELSE c
            ELSE Put(c, configKey, DefaultString(modelDef.Parameters[commandName].Default))
       ELSE IF validateParameter(commandName, value, modelDef)
       THEN Put(c, configKey, value)
       ELSE c

setParameter(commandName, value, c) ==
    setParameterOf(commandName, value, c, GetModelDefinition(c["MODEL"]))

\* the "model" case: the model must be in ModelDefinitions or in modelsList
modelKnown(modelName) ==
    modelName \in DOMAIN ModelDefinitions \/ modelName \in Range(modelsList)

----------------------------------------------------------------------------
(* The runs the model explores.                                            *)

StoredMsg(i) == IF i % 2 = 1 THEN Msg("user", << "earlier question" >>)
                ELSE Msg("assistant", << "earlier answer" >>)

\* a conversation file left by an earlier run, holding k messages
StoredConversation(k) ==
    DocFile([Marshal(FreshConversation(defaultCfg)) EXCEPT
                !.Messages = [i \in 1..k |-> StoredMsg(i)]])

Garbage == RawFile(<< "not json" >>)

NoFiles == [p \in Paths |-> IF p = SysPath THEN RawFile(<< "be brief" >>) ELSE Absent]

\* the file systems a session starts from
SessionFiles ==
    { NoFiles, [NoFiles EXCEPT ![ConvPath] = Garbage] }
    \cup { [NoFiles EXCEPT ![ConvPath] = StoredConversation(k)] : k \in 0..MaxStored }

NoEnv == [n \in Range(apiEnvNames) |-> ""]

Opt(key, val) == << Flag(key), Word(val) >>

KeyEnv == [NoEnv EXCEPT !["ACCESS_TOKEN"] = "env-key"]

WithKey(rest) == Opt("-k", "cli-key") \o rest

\* the runs of a session: a command line and the environment it runs in
SessionRuns ==
    { << << Word(ConvPath) >>, NoEnv >>,
      << << Word(ConvPath) >>, KeyEnv >>,
      << WithKey(<< Word(ConvPath) >>), KeyEnv >>,
      << WithKey(<< >>), NoEnv >>,
      << WithKey(Opt("-s", SysPath) \o << Flag("-S"), Word(ConvPath) >>), NoEnv >>,
      << WithKey(<< Flag("--no-stream"), Flag("--save-settings"), Word(ConvPath) >>), NoEnv >>,
      << WithKey(<< FlagEq("--model", "deepseek-ai/deepseek-v3.1"), Word(ConvPath) >>),
         NoEnv >>,
      << WithKey(Opt("--prompt", "one question")), NoEnv >>,
      << << Flag("--list") >>, NoEnv >> }
    \cup { << WithKey(Opt("-L", FormatD(n)) \o << Word(ConvPath) >>), NoEnv >> :
             n \in 0..MaxLimit }
    \cup { << WithKey(Opt("-L", v) \o << Word(ConvPath) >>), NoEnv >> : v \in { "-1", "many" } }
    \cup { << WithKey(Opt("-L", FormatD(n)) \o Opt("--prompt", "one question")
                      \o << Word(ConvPath) >>), NoEnv >> : n \in 1..MaxLimit }

\* the outcomes of file writes in a session (all of IOOutcomes are taken in
\* the specification of writeConversation's steps)
SessionIO == { "ok", "createfail" }

Op(name, ok) == [name |-> name, ok |-> ok]

Idle == [active |-> FALSE, calls |-> << >>, i |-> 0, created |-> FALSE,
         failed |-> FALSE, old |-> Absent, new |-> Absent]

NoDecode == [kind |-> "", chunks |-> << >>, scanErr |-> FALSE,
             body |-> Body(FALSE, "", "", "", "")]

NoOutput == [done |-> FALSE, text |-> << >>, err |-> FALSE, filtered |-> << >>]

\* no call of ensureHistoryFileStructure in progress: the number of nested
\* calls, and the outcome the system calls of the run have
NoCalls == [depth |-> 0, io |-> "ok"]

\* nothing typed yet: a first line and its words, the lines after it, and
\* whether standard input ended right after the first line
NoLine == [first |-> "", words |-> << >>, rest |-> << >>, eof |-> FALSE]

InitRest ==
    /\ pc = "start"
    /\ cfg = defaultCfg
    /\ cmds = 0
    /\ provided = {}
    /\ run = NoRun
    /\ requests = << >>
    /\ turns = 0
    /\ lastOp = Op("", TRUE)
    /\ exitCode = -1
    /\ wr = Idle
    /\ sIn = NoDecode
    /\ sOut = NoOutput
    /\ typed = NoLine
    /\ stack = NoCalls

Init ==
    /\ \E r \in SessionRuns : rawArgs = r[1] /\ env = r[2]
    /\ fs \in SessionFiles
    /\ InitRest

----------------------------------------------------------------------------
(* The steps of a run.                                                     *)

aux == << wr, sIn, sOut, typed, stack >>

\* main up to the interactive loop or the prompt-mode call
Startup ==
    /\ pc = "start"
    /\ \E ioE \in SessionIO, ioP \in SessionIO :
         LET r == mainStartup(rawArgs, env, fs, ioE, ioP)
         IN /\ pc' = r.pc
            /\ exitCode' = r.exit
            /\ fs' = r.fs
            /\ cfg' = r.cfg
            /\ provided' = r.provided
            /\ run' = r.run
    /\ lastOp' = Op("startup", TRUE)
    /\ UNCHANGED << rawArgs, env, cmds, requests, turns, aux >>

\* a POST to /chat/completions with its Authorization header
Request(turn, key, c, messages) ==
    [turn |-> turn, key |-> key, payload |-> buildPayload(c, messages)]

\* a variant that posts whatever the count is
sendTurnUnchecked(f, c, r, userInput, io, interactive) ==
    LET ap == appendMessage(f, r.convFile, "user", userInput, io)
        cf == readConversation(ap.fs, r.convFile).cf
    IN IF ~ap.ok THEN [fs |-> ap.fs, outcome |-> "appendfailed", messages |-> << >>]
       ELSE [fs |-> ap.fs, outcome |-> "post", messages |-> cf.Messages]

\* what one turn does up to its POST: processMessage (prompt mode with a
\* conversation file) or the body of the interactive loop
sendTurn(f, c, r, userInput, io, interactive) ==
    LET ap == appendMessage(f, r.convFile, "user", userInput, io)
        count == messageCount(ap.fs, r.convFile)
        limit == mustAtoi(c["HISTORY_LIMIT"], 0)
        cf == readConversation(ap.fs, r.convFile).cf
        messages == (IF interactive THEN << >> ELSE thinkingMessages(c))
                    \o systemMessages(effectiveSystem(r.sysPromptContent, cf))
                    \o cf.Messages
    IN IF ~ap.ok THEN [fs |-> ap.fs, outcome |-> "appendfailed", messages |-> << >>]
       ELSE IF count.n > limit THEN [fs |-> ap.fs, outcome |-> "overlimit", messages |-> << >>]
       ELSE [fs |-> ap.fs, outcome |-> "post", messages |-> messages]

\* --prompt: processMessage or processSinglePrompt, up to the POST
ProcessPrompt ==
    /\ pc = "promptmode"
    /\ turns' = turns + 1
    /\ IF run.mode = "promptnofile"
       THEN /\ requests' = Append(requests,
                   Request(turns + 1, run.ACCESS_TOKEN, cfg,
                           systemMessages(run.sysPromptContent)
                           \o << Msg("user", run.promptText) >>))
            /\ pc' = "awaiting"
            /\ lastOp' = Op("post", TRUE)
            /\ UNCHANGED << fs, exitCode >>
       ELSE \E io \in SessionIO :
              LET s == sendTurn(fs, cfg, run, run.promptText, io, FALSE)
              IN /\ fs' = s.fs
                 /\ IF s.outcome = "post"
                    THEN /\ requests' = Append(requests, Request(turns + 1, run.ACCESS_TOKEN, cfg, s.messages))
                         /\ pc' = "awaiting"
                         /\ exitCode' = exitCode
                         /\ lastOp' = Op("user", TRUE)
                    ELSE /\ requests' = requests
                         /\ pc' = "exited"
                         /\ exitCode' = 1
                         /\ lastOp' = Op("user", s.outcome = "overlimit")
    /\ UNCHANGED << rawArgs, env, cfg, cmds, provided, run, aux >>

\* strings.TrimSpace of a text
TrimSpace(text) ==
    LET solid == { i \in 1..Len(text) : ~IsSpace(text[i]) }
        lo == CHOOSE i \in solid : \A j \in solid : i <= j
        hi == CHOOSE i \in solid : \A j \in solid : i >= j
    IN IF solid = {} THEN << >> ELSE SubSeq(text, lo, hi)

\* strings.Join(lines, "\n")
RECURSIVE JoinLines(_)
JoinLines(ls) ==
    IF Len(ls) = 0 THEN << >>
    ELSE IF Len(ls) = 1 THEN << ls[1] >>
    ELSE << ls[1], NL >> \o JoinLines(Tail(ls))

\* what the user types at the prompt for one message: the first line, the
\* lines after it, and whether standard input ended right after the first line
Typed(first, rest, eof) == [first |-> first, rest |-> rest, eof |-> eof]

UserInputs == { Typed("/shrug", << "second line" >>, FALSE),
                Typed("cut short", << >>, TRUE) }

\* one pass of the interactive loop for an input that is not a command
UserTurn ==
    /\ pc = "prompt"
    /\ \E inp \in UserInputs, io \in SessionIO :
         LET lines == IF inp.eof THEN run.lines ELSE << inp.first >> \o inp.rest
             userInput == TrimSpace(JoinLines(lines))
             s == sendTurn(fs, cfg, run, userInput, io, TRUE)
         IN /\ turns < MaxTurns
            /\ run' = [run EXCEPT !.lines = lines]
            /\ IF userInput = << >>
               THEN /\ lastOp' = Op("empty", TRUE)
                    /\ UNCHANGED << fs, requests, pc, exitCode, turns >>
               ELSE /\ fs' = s.fs
                    /\ turns' = turns + 1
                    /\ lastOp' = Op("user", s.outcome # "appendfailed")
                    /\ requests' = IF s.outcome = "post"
                                   THEN Append(requests, Request(turns + 1, run.ACCESS_TOKEN, cfg, s.messages))
                                   ELSE requests
                    /\ pc' = CASE s.outcome = "post" -> "awaiting"
                               [] s.outcome = "overlimit" -> "exited"
                               [] OTHER -> "prompt"
                    /\ exitCode' = IF s.outcome = "overlimit" THEN 1 ELSE exitCode
    /\ UNCHANGED << rawArgs, env, cfg, cmds, provided, aux >>

----------------------------------------------------------------------------
(* The response to a POST.                                                 *)

\* the branches taken when client.Do fails or the status is >= 400: the
\* interactive loop continues, processMessage and processSinglePrompt return
\* the error and main exits 1.  The request is not sent again.
onFailureRetry(r, reqs, code) ==
    [pc |-> IF r.mode = "interactive" THEN "prompt" ELSE "exited",
     exit |-> IF r.mode = "interactive" THEN code ELSE 1,
     requests |-> Append(reqs, reqs[Len(reqs)])]

onFailure(r, reqs, code) ==
    [pc |-> IF r.mode = "interactive" THEN "prompt" ELSE "exited",
     exit |-> IF r.mode = "interactive" THEN code ELSE 1,
     requests |-> reqs]

Failure(name) ==
    /\ pc = "awaiting"
    /\ LET o == onFailure(run, requests, exitCode)
       IN /\ pc' = o.pc
          /\ exitCode' = o.exit
          /\ requests' = o.requests
    /\ lastOp' = Op(name, FALSE)
    /\ UNCHANGED << rawArgs, env, fs, cfg, cmds, provided, run, turns, aux >>

TransportError == Failure("transport")

ApiError == Failure("status")

\* what follows a decoded reply: the assistant message is stored when the
\* text is not blank (interactive loop) or not empty (processMessage)
storeReply(f, r, reply, io, code) ==
    LET ap == appendMessage(f, r.convFile, "assistant", reply.text, io)
    IN CASE r.mode = "interactive" ->
              [fs |-> IF NonBlank(reply.text) THEN ap.fs ELSE f,
               pc |-> "prompt", exit |-> code,
               stored |-> NonBlank(reply.text) /\ ap.ok]
         [] r.mode = "promptfile" ->
              [fs |-> IF reply.text # << >> THEN ap.fs ELSE f,
               pc |-> "exited",
               exit |-> IF reply.text # << >> /\ ~ap.ok THEN 1
                        ELSE IF reply.err THEN 1 ELSE 0,
               stored |-> reply.text # << >> /\ ap.ok]
         [] OTHER ->
              [fs |-> f, pc |-> "exited",
               exit |-> IF reply.quietErr THEN 1 ELSE 0, stored |-> FALSE]

\* the replies a session receives
SessionStreams == { << Delta("thinking", ""), Delta("", "answer") >>, << Skip >> }

SessionBodies == { Body(TRUE, "", "", "thinking", "answer"),
                   Body(FALSE, "", "", "", "") }

Reply(name, reply, io) ==
    LET s == storeReply(fs, run, reply, io, exitCode)
    IN /\ fs' = s.fs
       /\ pc' = s.pc
       /\ exitCode' = s.exit
       /\ lastOp' = Op(name, s.stored)
       /\ UNCHANGED << rawArgs, env, cfg, cmds, provided, run, requests, turns, aux >>

\* a 2xx response when cfg["STREAM"] == "true": handleStream, or
\* handleStreamQuiet without a conversation file
StreamReply ==
    /\ pc = "awaiting"
    /\ cfg["STREAM"] = "true"
    /\ \E chunks \in SessionStreams, scanErr \in BOOLEAN, io \in SessionIO :
         Reply("assistant",
               [handleStream(chunks, scanErr) EXCEPT !.err = scanErr] @@
               [quietErr |-> scanErr], io)

\* a 2xx response otherwise: handleNonStream, or handleNonStreamQuiet
NonStreamReply ==
    /\ pc = "awaiting"
    /\ cfg["STREAM"] # "true"
    /\ \E body \in SessionBodies, io \in SessionIO :
         Reply("assistant",
               [handleNonStream(body) EXCEPT !.err = FALSE] @@
               [quietErr |-> ~body.valid], io)

----------------------------------------------------------------------------
(* The interactive commands.                                               *)

MaxCmds == 1      \* commands typed in one session

\* the frame of a command: it ran at the prompt and the loop continues
Command(name, ok) ==
    /\ cmds' = cmds + 1
    /\ lastOp' = Op(name, ok)
    /\ UNCHANGED << rawArgs, env, provided, run, requests, turns, pc, exitCode, aux >>

AtPrompt == pc = "prompt" /\ cmds < MaxCmds

\* the paths a command may name
Targets == { OtherPath, run.convFile }

\* /clear
CmdClear ==
    /\ AtPrompt
    /\ \E io \in SessionIO :
         LET r == clearMessages(fs, run.convFile, io)
         IN fs' = r.fs /\ Command("clear", r.ok)
    /\ UNCHANGED cfg

\* the outcomes of copyFile: all calls succeed, os.Create fails, io.Copy
\* fails, Sync fails
CopyIO == { "ok", "createfail", "writefail", "syncfail" }

\* /save <path>
CmdSave ==
    /\ AtPrompt
    /\ \E target \in Targets, io \in CopyIO :
         LET r == copyFile(fs, run.convFile, target, io)
         IN fs' = r.fs /\ Command("save", r.ok)
    /\ UNCHANGED cfg

\* /persist-system <file>
CmdPersistSystem ==
    /\ AtPrompt
    /\ \E path \in { SysPath, OtherPath }, io \in SessionIO :
         LET r == persistSystemToFile(fs, run.convFile, FileText(fs[path]), io)
         IN IF fileExists(fs, path)
            THEN fs' = r.fs /\ Command("persist-system", r.ok)
            ELSE fs' = fs /\ Command("persist-system", FALSE)
    /\ UNCHANGED cfg

\* /persist-settings
CmdPersistSettings ==
    /\ AtPrompt
    /\ \E io \in SessionIO :
         LET r == persistSettingsToFile(fs, run.convFile, cfg, io)
         IN /\ fs' = r.fs
            /\ cmds' = cmds + 1
            /\ lastOp' = Op("persist-settings", r.ok)
            /\ pc' = IF r.panic THEN "exited" ELSE pc
            /\ exitCode' = IF r.panic THEN 2 ELSE exitCode
    /\ UNCHANGED << cfg, rawArgs, env, provided, run, requests, turns, aux >>

\* /exportlast [-t] <file>, /exportn [-t] <n> <file>, /exportlastn [-t] <n> <file>
CmdExport ==
    /\ AtPrompt
    /\ \E kind \in { "exportlast", "exportn", "exportlastn" }, t \in BOOLEAN,
          n \in 0..2, target \in Targets, io \in SessionIO :
         LET r == CASE kind = "exportlast" ->
                        exportLastN(fs, 1, run.convFile, target, t, io)
                    [] kind = "exportn" ->
                        exportNth(fs, n, run.convFile, target, t, io)
                    [] OTHER ->
                        exportLastN(fs, n, run.convFile, target, t, io)
         IN fs' = r.fs /\ Command(kind, r.ok)
    /\ UNCHANGED cfg

\* the values typed after a setting command
SetInputs == { << "history_limit", "1" >>, << "history_limit", "0" >>,
               << "history_limit", "unset" >>, << "history_limit", "many" >>,
               << "stream", "false" >>, << "stream", "1" >>, << "stream", "unset" >>,
               << "temperature", "0.5" >>, << "temperature", "2.5" >>,
               << "thinking", "true" >>, << "seed", "7" >>, << "seed", "unset" >> }

\* /<parameter> <value> and /<parameter> unset
CmdSet ==
    /\ AtPrompt
    /\ \E in \in SetInputs :
         /\ isSettingCommand(in[1], cfg)
         /\ cfg' = setParameter(in[1], in[2], cfg)
         /\ Command("set", in[2] = "unset" \/
                           validateParameter(in[1], in[2], GetModelDefinition(cfg["MODEL"])))
    /\ UNCHANGED fs

\* the names typed after /model
ModelInputs == { "deepseek-ai/deepseek-v3.1", "nvidia/llama-3.3-nemotron-super-49b-v1.5",
                 "mistralai/mixtral-8x22b-instruct-v0.1", defaultModel, "no/such-model" }

\* /model <model_name>
CmdModel ==
    /\ AtPrompt
    /\ \E modelName \in ModelInputs :
         /\ cfg' = IF modelKnown(modelName) THEN Put(cfg, "MODEL", modelName) ELSE cfg
         /\ Command("model", modelKnown(modelName))
    /\ UNCHANGED fs

\* /randomodel: rand.Intn(len(modelsList))
CmdRandomodel ==
    /\ AtPrompt
    /\ \E i \in 1..Len(modelsList) :
         cfg' = Put(cfg, "MODEL", modelsList[i]) /\ Command("randomodel", TRUE)
    /\ UNCHANGED fs

\* the words typed for /history, /help and /modelinfo
InfoInputs == { << "history" >>, << "help" >>, << "modelinfo" >>,
                << "modelinfo", defaultModel >>, << "modelinfo", "google/gemma-7b" >>,
                << "modelinfo", "no/such-model" >> }

\* /history, /help, /modelinfo <model_name>: they print and change nothing;
\* /history fails when the conversation file cannot be read, /modelinfo
\* without a name and for a model without a definition
CmdInfo ==
    /\ AtPrompt
    /\ \E parts \in InfoInputs :
         Command("info", CASE parts[1] = "history" -> fileExists(fs, run.convFile)
                           [] parts[1] = "help" -> TRUE
                           [] OTHER -> Len(parts) >= 2 /\ modelDefined(parts[2]))
    /\ UNCHANGED << fs, cfg >>

\* /exit, /quit
CmdExit ==
    /\ pc = "prompt"
    /\ pc' = "exited"
    /\ exitCode' = 0
    /\ lastOp' = Op("exit", TRUE)
    /\ UNCHANGED << rawArgs, env, fs, cfg, cmds, provided, run, requests, turns, aux >>

Next ==
    \/ Startup
    \/ ProcessPrompt
    \/ UserTurn
    \/ TransportError
    \/ ApiError
    \/ StreamReply
    \/ NonStreamReply
    \/ CmdClear
    \/ CmdSave
    \/ CmdPersistSystem
    \/ CmdPersistSettings
    \/ CmdExport
    \/ CmdSet
    \/ CmdModel
    \/ CmdRandomodel
    \/ CmdInfo
    \/ CmdExit

Spec == Init /\ [][Next]_vars

----------------------------------------------------------------------------
(* Properties of a session.                                                *)

\* the conversation file of the run holds a document
HasConversation(f) == run.convFile \in Paths /\ f[run.convFile].kind = "doc"

\* the messages stored in the conversation file of the run
Stored(f) == f[run.convFile].doc.Messages

\* the history limit in force
Limit == mustAtoi(cfg["HISTORY_LIMIT"], 0)

\* the operations C1 lists
PreservingOps == { "user", "assistant", "persist-system", "persist-settings", "set",
                   "model", "save", "exportlast", "exportn", "exportlastn" }

\* C1: every operation of a session other than /clear (appending a user or
\* assistant message, /persist-system, /persist-settings, a setting command,
\* /model, /save, the export commands) leaves the messages stored in the
\* conversation file before it as a prefix of the messages stored after it.
C1_AppendOnlyExceptClear ==
    [][ (HasConversation(fs) /\ lastOp'.name \in PreservingOps)
        => (HasConversation(fs') /\ IsPrefix(Stored(fs), Stored(fs'))) ]_vars

\* C3: in the interactive loop and in --prompt mode with a conversation file,
\* when the count after appending the user's message exceeds the history
\* limit, no request is sent for the turn and the stored messages are the
\* earlier ones followed by the user's message: none is removed.
C3_NoRequestNoEviction ==
    [][ (/\ HasConversation(fs)
         /\ lastOp'.name = "user" /\ lastOp'.ok
         /\ HasConversation(fs')
         /\ Len(Stored(fs')) > Limit)
        => (/\ requests' = requests
            /\ pc' = "exited" /\ exitCode' = 1
            /\ Len(Stored(fs')) = Len(Stored(fs)) + 1
            /\ IsPrefix(Stored(fs), Stored(fs'))
            /\ Stored(fs')[Len(Stored(fs'))].Role = "user") ]_vars

\* an interactive turn stopped by the limit, its message stored, nothing sent
C3_Witness ==
    /\ run.mode = "interactive" /\ pc = "exited" /\ exitCode = 1
    /\ lastOp = Op("user", TRUE)
    /\ HasConversation(fs) /\ Len(Stored(fs)) > Limit
    /\ turns = 2 /\ Len(requests) = 1

\* C4: with a fixed history limit L (no command has run), after any sequence
\* of user turns and assistant replies the conversation file holds at most L
\* messages.
C4_AtMostLimit ==
    (turns >= 1 /\ cmds = 0 /\ HasConversation(fs)) => Len(Stored(fs)) <= Limit

\* the API fields of a model's schema
APIFields(modelName) ==
    { GetModelDefinition(modelName).Parameters[k].APIKey :
        k \in DOMAIN GetModelDefinition(modelName).Parameters } \ { "" }

\* C6: every request body holds model, messages and stream, and apart from
\* those, chat_template_kwargs and seed, only API fields of the schema of the
\* model it names (the "others" schema for a model without an entry).
C6_PayloadWithinSchema ==
    \A i \in 1..Len(requests) :
       LET body == requests[i].payload
       IN /\ {"model", "messages", "stream"} \subseteq DOMAIN body.fields
          /\ body.fields["model"] = StrV(body.model)
          /\ (DOMAIN body.fields) \ {"model", "messages", "stream",
                                     "chat_template_kwargs", "seed"}
               \subseteq APIFields(body.model)

\* a request for deepseek-v3.1 made while the session holds a value for
\* reasoning_effort, which that schema lacks
C6_Witness ==
    \E i \in 1..Len(requests) :
       /\ requests[i].payload.model = "deepseek-ai/deepseek-v3.1"
       /\ Has(cfg, "REASONING_EFFORT")
       /\ "reasoning_effort" \notin APIFields("deepseek-ai/deepseek-v3.1")
       /\ "reasoning_effort" \notin DOMAIN requests[i].payload.fields
       /\ "temperature" \in DOMAIN requests[i].payload.fields

\* every request belongs to one turn, in the order of the turns
OnePostPerTurn ==
    /\ Len(requests) <= turns
    /\ \A i \in 1..Len(requests) : \A j \in 1..Len(requests) :
          i < j => requests[i].turn < requests[j].turn
    /\ pc = "awaiting" => (requests # << >> /\ requests[Len(requests)].turn = turns)

\* a step that sends a request sends one, for a user turn that starts with it
PostStartsTurn ==
    requests' # requests
    => /\ turns' = turns + 1
       /\ requests' = Append(requests, requests'[Len(requests')])
       /\ requests'[Len(requests')].turn = turns'

\* a transport error or a status >= 400 ends the turn with an error report:
\* nothing is sent again, nothing is stored, the loop is back at its prompt
\* and a --prompt run exits with status 1
FailureEndsTurn ==
    (pc = "awaiting" /\ lastOp'.name \in { "transport", "status" })
    => /\ ~lastOp'.ok
       /\ requests' = requests
       /\ turns' = turns
       /\ fs' = fs
       /\ IF run.mode = "interactive" THEN pc' = "prompt" /\ exitCode' = exitCode
          ELSE pc' = "exited" /\ exitCode' = 1

\* C7: each user turn causes at most one POST: after a transport error or a
\* status >= 400 the request is not sent again, the turn ends with an error
\* report, and the next POST is issued only for a new user turn.
C7_OnePostPerTurn ==
    /\ []OnePostPerTurn
    /\ [][PostStartsTurn /\ FailureEndsTurn]_vars

\* an interactive turn whose request got a status >= 400: the error was
\* reported, the one request of the turn stays the only one and the loop is
\* at its prompt again
C7_Witness ==
    /\ lastOp = Op("status", FALSE)
    /\ run.mode = "interactive" /\ pc = "prompt"
    /\ turns = 1 /\ Len(requests) = 1 /\ requests[1].turn = 1

\* the same after a transport error, and in a --prompt run, which exits
FailedTransport ==
    /\ lastOp = Op("transport", FALSE)
    /\ run.mode = "interactive" /\ pc = "prompt"
    /\ turns = 1 /\ Len(requests) = 1

FailedPromptRun ==
    /\ lastOp.name \in { "transport", "status" }
    /\ run.mode # "interactive" /\ pc = "exited" /\ exitCode = 1
    /\ Len(requests) = 1

\* a later turn posted its own request in a session where an earlier turn
\* stored no answer
PostedNextTurn ==
    /\ pc = "awaiting" /\ turns = 2 /\ Len(requests) = 2
    /\ requests[2].turn = 2
    /\ LET msgs == requests[2].payload.messages
       IN Len(msgs) >= 2 /\ msgs[Len(msgs)].Role = "user"
          /\ msgs[Len(msgs) - 1].Role = "user"

----------------------------------------------------------------------------
(* writeConversation step by step: the system calls of one write, with the *)
(* file system observed between them.                                      *)

MaxWrites == 2    \* operations in one run of the step-by-step specification

\* the cfg maps persistSettingsToFile is called with
WriteCfgs == { defaultCfg, Put(defaultCfg, "STREAM", "false"),
               Put(defaultCfg, "HISTORY_LIMIT", "1") }

\* the operations that rewrite the conversation file, as the name of the
\* operation and the document it passes to writeConversation
WriteOps(cf) ==
    { << "user", withMessage(cf, "user", << "question" >>) >>,
      << "assistant", withMessage(cf, "assistant", << "answer" >>) >>,
      << "clear", withoutMessages(cf) >>,
      << "persist-system", withSystem(cf, << "be brief" >>) >> }
    \cup { << "persist-settings", ws.cf >> :
             ws \in { w \in { withSettings(cf, c) : c \in WriteCfgs } : ~w.panic } }

InitAtomic ==
    /\ rawArgs = << Word(ConvPath) >>
    /\ env = NoEnv
    /\ \E k \in 0..MaxStored, left \in { Absent, Partial } :
         fs = [NoFiles EXCEPT ![ConvPath] = StoredConversation(k),
                              ![TmpOf(ConvPath)] = left]
    /\ pc = "prompt"
    /\ cfg = defaultCfg
    /\ cmds = 0
    /\ provided = {}
    /\ run = [NoRun EXCEPT !.convFile = ConvPath, !.mode = "interactive"]
    /\ requests = << >>
    /\ turns = 0
    /\ lastOp = Op("", TRUE)
    /\ exitCode = -1
    /\ wr = Idle
    /\ sIn = NoDecode
    /\ sOut = NoOutput
    /\ typed = NoLine
    /\ stack = NoCalls

rest == << pc, rawArgs, env, cfg, provided, run, requests, turns, exitCode, sIn, sOut,
          typed, stack >>

\* the operation reads the file and calls writeConversation
AtomicBegin ==
    /\ ~wr.active
    /\ cmds < MaxWrites
    /\ readConversation(fs, ConvPath).ok
    /\ \E op \in WriteOps(readConversation(fs, ConvPath).cf) :
         /\ wr' = [active |-> TRUE, calls |-> writeCalls(ConvPath, op[2]), i |-> 1,
                   created |-> FALSE, failed |-> FALSE,
                   old |-> fs[ConvPath], new |-> DocFile(Marshal(op[2]))]
         /\ lastOp' = Op(op[1], FALSE)
    /\ cmds' = cmds + 1
    /\ UNCHANGED << fs, rest >>

Current == wr.calls[wr.i]

Running == wr.active /\ ~wr.failed /\ wr.i <= Len(wr.calls)

\* ioutil.WriteFile opens its target with O_CREATE|O_TRUNC
AtomicCreate ==
    /\ Running /\ Current.call = "WriteFile" /\ ~wr.created
    /\ fs' = [fs EXCEPT ![Current.to] = RawFile(<< >>)]
    /\ wr' = [wr EXCEPT !.created = TRUE]
    /\ UNCHANGED << cmds, lastOp, rest >>

\* the first bytes reach the file
AtomicWritePart ==
    /\ Running /\ Current.call = "WriteFile" /\ wr.created
    /\ fs[Current.to] = RawFile(<< >>)
    /\ fs' = WriteFile(fs, Current.to, Current.file, "writefail")
    /\ UNCHANGED << wr, cmds, lastOp, rest >>

\* the remaining bytes reach the file and WriteFile returns nil
AtomicWriteRest ==
    /\ Running /\ Current.call = "WriteFile" /\ wr.created
    /\ fs[Current.to] = Partial
    /\ fs' = WriteFile(fs, Current.to, Current.file, "ok")
    /\ wr' = [wr EXCEPT !.i = @ + 1, !.created = FALSE]
    /\ UNCHANGED << cmds, lastOp, rest >>

\* os.Rename
AtomicRename ==
    /\ Running /\ Current.call = "Rename"
    /\ fs' = RunCall(fs, Current, "ok")
    /\ wr' = [wr EXCEPT !.i = @ + 1]
    /\ UNCHANGED << cmds, lastOp, rest >>

\* the current call returns an error: the open fails, a write fails with
\* part of the bytes on disk, or the rename fails
AtomicFail ==
    /\ Running
    /\ \/ Current.call = "WriteFile" /\ ~wr.created
       \/ Current.call = "WriteFile" /\ fs[Current.to] = Partial
       \/ Current.call = "Rename"
    /\ wr' = [wr EXCEPT !.failed = TRUE]
    /\ UNCHANGED << fs, cmds, lastOp, rest >>

\* writeConversation returns
AtomicEnd ==
    /\ wr.active
    /\ wr.failed \/ wr.i > Len(wr.calls)
    /\ wr' = Idle
    /\ lastOp' = Op(lastOp.name, ~wr.failed)
    /\ UNCHANGED << fs, cmds, rest >>

NextAtomic ==
    \/ AtomicBegin
    \/ AtomicCreate
    \/ AtomicWritePart
    \/ AtomicWriteRest
    \/ AtomicRename
    \/ AtomicFail
    \/ AtomicEnd

SpecAtomic == InitAtomic /\ [][NextAtomic]_vars

\* C2: while appendMessage, /clear, persistSystemToFile or
\* persistSettingsToFile rewrites the conversation file, the path holds at
\* every step the complete old document or the complete new one; the new one
\* appears there only after all of it was written to path+".tmp"; and a
\* failure while writing the temp file leaves the path as it was.
C2_AtomicReplace ==
    wr.active =>
      /\ wr.old.kind = "doc" /\ wr.new.kind = "doc"
      /\ fs[ConvPath] \in { wr.old, wr.new }
      /\ wr.i = 1 => fs[ConvPath] = wr.old
      /\ wr.i > 1 => fs[ConvPath] = wr.new \/ fs[TmpOf(ConvPath)] = wr.new
      /\ (wr.failed /\ wr.calls[wr.i].to = TmpOf(ConvPath)) => fs[ConvPath] = wr.old

\* the write of the temp file failed half way through an operation that
\* changes the document
C2_Witness ==
    /\ wr.active /\ wr.failed /\ wr.i = 1
    /\ fs[TmpOf(ConvPath)] = Partial
    /\ wr.new # wr.old
    /\ fs[ConvPath] = wr.old

----------------------------------------------------------------------------
(* The decoders on their own: a response is decoded, stored as the         *)
(* assistant message and exported with -t.                                 *)

ReasoningTexts == { "r1", "r2" }
ContentTexts == { "c1", "c2" }

\* the chunks of a stream
Chunks == { Skip, Delta("r1", ""), Delta("", "c1"), Delta("r2", "c2") }

\* the chunk sequences of at most n chunks
RECURSIVE ChunkSeqs(_)
ChunkSeqs(n) ==
    IF n = 0 THEN { << >> }
    ELSE ChunkSeqs(n - 1)
         \cup { Append(s, ch) : s \in { q \in ChunkSeqs(n - 1) : Len(q) = n - 1 },
                                ch \in Chunks }

\* the bodies of a response that is not streamed
Bodies == { Body(v, dr, dc, mr, mc) :
              v \in BOOLEAN, dr \in {"", "r1"}, dc \in {"", "c1"},
              mr \in {"", "r2"}, mc \in {"", "c2"} }

InitStream ==
    /\ rawArgs = << Word(ConvPath) >>
    /\ env = NoEnv
    /\ fs = [NoFiles EXCEPT ![ConvPath] = StoredConversation(0)]
    /\ pc = "decode"
    /\ cfg = defaultCfg
    /\ cmds = 0
    /\ provided = {}
    /\ run = [NoRun EXCEPT !.convFile = ConvPath, !.mode = "interactive"]
    /\ requests = << >>
    /\ turns = 0
    /\ lastOp = Op("", TRUE)
    /\ exitCode = -1
    /\ wr = Idle
    /\ \/ \E chunks \in ChunkSeqs(MaxChunks), scanErr \in BOOLEAN :
            sIn = [NoDecode EXCEPT !.kind = "stream", !.chunks = chunks,
                                   !.scanErr = scanErr]
       \/ \E body \in Bodies : sIn = [NoDecode EXCEPT !.kind = "body", !.body = body]
    /\ sOut = NoOutput
    /\ typed = NoLine
    /\ stack = NoCalls

frame == << rawArgs, env, cfg, cmds, provided, run, requests, turns, exitCode, wr, sIn,
           typed, stack >>

Decoded(reply) ==
    /\ sOut' = [sOut EXCEPT !.done = TRUE, !.text = reply.text, !.err = reply.err]
    /\ pc' = "store"
    /\ lastOp' = Op("decode", ~reply.err)
    /\ UNCHANGED << fs, frame >>

\* handleStream on the chunks
DecodeStream ==
    /\ pc = "decode" /\ sIn.kind = "stream"
    /\ Decoded(handleStream(sIn.chunks, sIn.scanErr))

\* handleNonStream on the body
DecodeBody ==
    /\ pc = "decode" /\ sIn.kind = "body"
    /\ Decoded(handleNonStream(sIn.body))

\* the interactive loop stores the text as the assistant message
StoreDecoded ==
    /\ pc = "store"
    /\ LET s == storeReply(fs, run, [text |-> sOut.text, err |-> sOut.err,
                                     quietErr |-> FALSE], "ok", exitCode)
       IN /\ fs' = s.fs
          /\ lastOp' = Op("assistant", s.stored)
          /\ pc' = IF s.stored THEN "export" ELSE "done"
    /\ UNCHANGED << sOut, frame >>

\* /exportlast -t other.md
ExportFiltered ==
    /\ pc = "export"
    /\ LET r == exportLastN(fs, 1, ConvPath, OtherPath, TRUE, "ok")
       IN /\ fs' = r.fs
          /\ lastOp' = Op("exportlast", r.ok)
          /\ sOut' = [sOut EXCEPT !.filtered = FileText(r.fs[OtherPath])]
    /\ pc' = "done"
    /\ UNCHANGED frame

NextStream ==
    \/ DecodeStream
    \/ DecodeBody
    \/ StoreDecoded
    \/ ExportFiltered

SpecStream == InitStream /\ [][NextStream]_vars

\* begin markers minus end markers among the first k atoms of a text
Depth(text, k) ==
    Cardinality({ i \in 1..k : text[i] = BeginMark })
    - Cardinality({ i \in 1..k : text[i] = EndMark })

IsDelta(a) == a \in ReasoningTexts \cup ContentTexts

\* the non-empty deltas of a chunk sequence in arrival order, the reasoning
\* of a chunk before its content
RECURSIVE Deltas(_)
Deltas(chunks) ==
    IF chunks = << >> THEN << >>
    ELSE (IF Head(chunks).skip THEN << >>
          ELSE (IF Head(chunks).reasoning # "" THEN << Head(chunks).reasoning >> ELSE << >>)
               \o (IF Head(chunks).content # "" THEN << Head(chunks).content >> ELSE << >>))
         \o Deltas(Tail(chunks))

\* C8: for any sequence of stream chunks, the text handleStream returns has
\* balanced, non-nested reasoning markers, closed before any answer content
\* and before the end of the text; every reasoning delta lies inside a pair
\* of markers and every content delta outside; the deltas keep their
\* arrival order.
C8_BalancedMarkers ==
    (sIn.kind = "stream" /\ sOut.done) =>
       /\ \A k \in 0..Len(sOut.text) : Depth(sOut.text, k) \in {0, 1}
       /\ Depth(sOut.text, Len(sOut.text)) = 0
       /\ \A k \in 1..Len(sOut.text) :
             /\ sOut.text[k] \in ReasoningTexts => Depth(sOut.text, k) = 1
             /\ sOut.text[k] \in ContentTexts => Depth(sOut.text, k) = 0
       /\ SelectSeq(sOut.text, IsDelta) = Deltas(sIn.chunks)

\* a stream that ends while the reasoning is open, after an answer
C8_Witness ==
    /\ sIn.kind = "stream" /\ sOut.done
    /\ Len(sIn.chunks) >= 2
    /\ sIn.chunks[Len(sIn.chunks)] = Delta("r1", "")
    /\ sIn.chunks[Len(sIn.chunks) - 1] = Delta("r2", "c2")
    /\ sOut.text[Len(sOut.text) - 2] = EndMark

\* the answer of a response: its content deltas in arrival order
AnswerOf(in) ==
    IF in.kind = "stream" THEN SelectSeq(Deltas(in.chunks), LAMBDA a : a \in ContentTexts)
    ELSE LET content == IF in.body.deltaC # "" THEN in.body.deltaC ELSE in.body.msgC
         IN IF content # "" THEN << content >> ELSE << >>

\* the response carried reasoning
HadReasoning(in) ==
    IF in.kind = "stream" THEN \E i \in 1..Len(in.chunks) :
                                  ~in.chunks[i].skip /\ in.chunks[i].reasoning # ""
    ELSE in.body.valid /\ (in.body.deltaR # "" \/ in.body.msgR # "")

\* C9: an assistant response stored with a reasoning segment, decoded from a
\* streamed or from a non-streamed response, is exported with -t as its
\* answer content alone: the reasoning and both of its markers are removed.
C9_ExportWithoutReasoning ==
    (pc = "done" /\ lastOp = Op("exportlast", TRUE) /\ HadReasoning(sIn)) =>
       /\ \A k \in 1..Len(sOut.filtered) :
             sOut.filtered[k] \notin { BeginMark, EndMark, EndMarkNoSlash }
                                     \cup ReasoningTexts
       /\ SelectSeq(sOut.filtered, IsDelta) = AnswerOf(sIn)

\* C9 for streamed responses: what the export removes when the response was
\* decoded by handleStream
C9_StreamedExportWithoutReasoning ==
    (sIn.kind = "stream") => C9_ExportWithoutReasoning

----------------------------------------------------------------------------
(* Startup on its own, over many command lines, environments and           *)
(* conversation files, up to the first request.                            *)

\* the environments: each variable of apiEnvNames is empty or holds a key of
\* its own
Envs == { [n \in Range(apiEnvNames) |-> IF n \in S THEN "key-of-" \o n ELSE ""] :
            S \in SUBSET Range(apiEnvNames) }

\* the runs that only print: the model list, the help text, the description
\* of a model with a definition and of one without
InfoArgs == { << Flag("--list") >>, << Flag("-h") >>,
              Opt("--modelinfo", defaultModel), Opt("--modelinfo", "no/such-model") }

\* the ways a run names its mode
ModeArgs == { << Word(ConvPath) >>,
              Opt("--prompt", "one question") \o << Word(ConvPath) >> }
            \cup InfoArgs

\* command lines that differ in the key
KeyArgs == { k \o m : k \in { << >>, Opt("-k", "cli-key") }, m \in ModeArgs }

\* command lines that differ in the settings they give
SettingArgs ==
    { Opt("-k", "cli-key") \o l \o s \o m \o tt \o mode :
        l \in { << >> } \cup { Opt("-L", FormatD(n)) : n \in 1..MaxLimit },
        s \in { << >>, << Flag("--no-stream") >>, << FlagEq("--stream", "true") >> },
        m \in { << >>, << FlagEq("--model", "deepseek-ai/deepseek-v3.1") >> },
        tt \in { << >>, Opt("-T", "0.7") },
        mode \in ModeArgs \ InfoArgs }

\* the per-model settings a conversation file may hold
StoredModels ==
    { Marshal(FreshConversation(defaultCfg)).Settings.Models,
      defaultModel :> [temperature |-> FloatV(50), max_tokens |-> FloatV(102400)],
      defaultModel :> [temperature |-> StrV("hot")],
      "deepseek-ai/deepseek-v3.1" :>
          [temperature |-> FloatV(20), thinking |-> BoolV(TRUE), seed |-> FloatV(700)] }

\* the conversation files a run may find: written by earlier runs with
\* other settings
StoredFiles ==
    { Absent, Garbage }
    \cup { DocFile([StoredConversation(0).doc EXCEPT
                      !.Settings.HistoryLimit = limit,
                      !.Settings.Stream = stream,
                      !.Settings.Models = models]) :
             limit \in (0..MaxLimit) \cup { defaultHistoryLimit },
             stream \in BOOLEAN, models \in StoredModels }

InitStartup ==
    /\ \/ /\ rawArgs \in KeyArgs
          /\ env \in Envs
          /\ fs \in { NoFiles, [NoFiles EXCEPT ![ConvPath] = StoredConversation(0)] }
       \/ /\ rawArgs \in SettingArgs
          /\ env = NoEnv
          /\ \E file \in StoredFiles : fs = [NoFiles EXCEPT ![ConvPath] = file]
    /\ InitRest

NextStartup ==
    \/ Startup
    \/ ProcessPrompt
    \/ UserTurn

SpecStartup == InitStartup /\ [][NextStartup]_vars

\* the options of the help text that give a setting, by cfg key
GivenBy ==
    [ KEY \in { "MODEL", "TEMPERATURE", "TOP_P", "FREQUENCY_PENALTY", "PRESENCE_PENALTY",
                "MAX_TOKENS", "HISTORY_LIMIT", "REASONING_EFFORT", "STOP", "STREAM" } |->
        CASE KEY = "MODEL" -> { "-m", "--model" }
          [] KEY = "TEMPERATURE" -> { "-T", "--temperature" }
          [] KEY = "TOP_P" -> { "-P", "--top-p" }
          [] KEY = "FREQUENCY_PENALTY" -> { "-f", "--frequency-penalty" }
          [] KEY = "PRESENCE_PENALTY" -> { "-r", "--presence-penalty" }
          [] KEY = "MAX_TOKENS" -> { "-M", "--max-tokens" }
          [] KEY = "HISTORY_LIMIT" -> { "-L", "--limit" }
          [] KEY = "REASONING_EFFORT" -> { "--reasoning" }
          [] KEY = "STOP" -> { "--stop" }
          [] OTHER -> { "--stream", "--no-stream" } ]

\* the setting was given on the command line
Given(raw, KEY) ==
    KEY \in DOMAIN GivenBy
    /\ \E i \in 1..Len(raw) : raw[i].flag /\ raw[i].key \in GivenBy[KEY]

\* the document applyFileSettingsAsDefaults reads: the file found, or the
\* one ensureHistoryFileStructure wrote in its place
FoundDoc(raw, f, path) ==
    IF f[path].kind = "doc" /\ f[path].doc.Nil = {} THEN f[path].doc
    ELSE Marshal(FreshConversation(ParseOptions(raw).cfg))

\* a value that stands for "cfg has no such key"
NoValue == "<absent>"

Effective(c, KEY) == IF Has(c, KEY) THEN c[KEY] ELSE NoValue

\* the value C5 promises for a parameter of the schema: command line, then
\* the file's settings of the model (its default settings without an
\* entry) when stored with the parameter's type, then the built-in default
Promised(raw, doc, modelName, key) ==
    LET settings == IF Has(doc.Settings.Models, modelName)
                    THEN doc.Settings.Models[modelName] ELSE doc.Settings.Default
        paramDef == GetModelDefinition(modelName).Parameters[key]
    IN IF Given(raw, ToUpper(key)) THEN ParseOptions(raw).cfg[ToUpper(key)]
       ELSE IF Has(settings, key) /\ FileValueString(paramDef, settings[key]).ok
       THEN FileValueString(paramDef, settings[key]).v
       ELSE Effective(defaultCfg, ToUpper(key))

\* startup reached the loop or processMessage with a conversation file
AppliedStep ==
    /\ pc = "start"
    /\ pc' \in { "prompt", "promptmode" }
    /\ run'.mode \in { "interactive", "promptfile" }

\* what C5 promises for the parameters of the schema and for stream
PromisedSettings ==
    /\ \A key \in DOMAIN GetModelDefinition(cfg'["MODEL"]).Parameters :
          Effective(cfg', ToUpper(key))
            = Promised(rawArgs, FoundDoc(rawArgs, fs, run'.convFile), cfg'["MODEL"], key)
    /\ cfg'["STREAM"] =
          IF Given(rawArgs, "STREAM") THEN ParseOptions(rawArgs).cfg["STREAM"]
          ELSE FormatBool(FoundDoc(rawArgs, fs, run'.convFile).Settings.Stream)

\* the history limit the file holds
StoredLimit == FoundDoc(rawArgs, fs, run'.convFile).Settings.HistoryLimit

\* C5 as stated: at startup the effective value of stream, history_limit and
\* every parameter of the active model's schema is the command-line value
\* when given, else the value persisted for the model when stored with the
\* parameter's type, else the built-in default.
C5_Precedence ==
    [][ AppliedStep =>
          /\ PromisedSettings
          /\ cfg'["HISTORY_LIMIT"] =
               IF Given(rawArgs, "HISTORY_LIMIT")
               THEN ParseOptions(rawArgs).cfg["HISTORY_LIMIT"]
               ELSE FormatD(StoredLimit) ]_vars

\* C5 amended: the same, except that a persisted history_limit of 0 counts
\* as not stored and the built-in default applies.
C5_PrecedenceNonZeroLimit ==
    [][ AppliedStep =>
          /\ PromisedSettings
          /\ cfg'["HISTORY_LIMIT"] =
               IF Given(rawArgs, "HISTORY_LIMIT")
               THEN ParseOptions(rawArgs).cfg["HISTORY_LIMIT"]
               ELSE IF StoredLimit # 0 THEN FormatD(StoredLimit)
               ELSE FormatD(defaultHistoryLimit) ]_vars

\* all three layers in one run: the limit from the command line over a
\* different persisted one, top_p from the default settings of the file,
\* max_tokens from the built-in defaults, and so the temperature, which the
\* file stores as a string
C5_Witness ==
    /\ pc = "prompt"
    /\ Given(rawArgs, "HISTORY_LIMIT") /\ ~Given(rawArgs, "TEMPERATURE")
    /\ HasConversation(fs)
    /\ fs[ConvPath].doc.Settings.HistoryLimit # mustAtoi(cfg["HISTORY_LIMIT"], 0)
    /\ fs[ConvPath].doc.Settings.Models = defaultModel :> [temperature |-> StrV("hot")]
    /\ cfg["HISTORY_LIMIT"] = ParseOptions(rawArgs).cfg["HISTORY_LIMIT"]
    /\ cfg["MAX_TOKENS"] = defaultCfg["MAX_TOKENS"]
    /\ cfg["TEMPERATURE"] = defaultCfg["TEMPERATURE"]
    /\ cfg["TOP_P"] = DefaultString(fs[ConvPath].doc.Settings.Default["top_p"])

\* the order in which C10 names the environment variables
ClaimedEnvOrder == << "NVIDIA_BUILD_AI_ACCESS_TOKEN", "NVIDIA_ACCESS_TOKEN", "ACCESS_TOKEN",
                      "NVIDIA_API_KEY", "API_KEY" >>

\* the key C10 promises: the -k value, else the first non-empty variable
PromisedKey(raw, e) ==
    LET set == { i \in 1..Len(ClaimedEnvOrder) : e[ClaimedEnvOrder[i]] # "" }
        first == CHOOSE i \in set : \A j \in set : i <= j
    IN IF ParseOptions(raw).ACCESS_TOKEN # "" THEN ParseOptions(raw).ACCESS_TOKEN
       ELSE IF set # {} THEN e[ClaimedEnvOrder[first]]
       ELSE ""

\* the run asks for the help text, the model list or a model's description,
\* and its options are read without an error
AsksInfo(raw) ==
    \/ ParseOptions(raw).exit = 0
    \/ /\ ParseOptions(raw).exit = -1
       /\ ParseOptions(raw).LIST_ONLY \/ ParseOptions(raw).MODEL_INFO_FLAG # ""

\* the status such a run ends with: 1 when the one thing it asks for is the
\* description of a model that has no definition, else 0
InfoStatus(raw) ==
    IF /\ ParseOptions(raw).exit = -1
       /\ ~ParseOptions(raw).LIST_ONLY
       /\ ParseOptions(raw).MODEL_INFO_FLAG \notin modelsDefined
    THEN 1 ELSE 0

\* every request carries the promised key, and so does a run that got past
\* the key check
UsesPromisedKey ==
    /\ \A i \in 1..Len(requests') : requests'[i].key = PromisedKey(rawArgs, env)
    /\ pc' \in { "prompt", "promptmode", "awaiting" }
         => run'.ACCESS_TOKEN = PromisedKey(rawArgs, env) /\ run'.ACCESS_TOKEN # ""

\* the run ends with an error, no file touched, nothing sent
StopsBeforeAnything ==
    /\ pc' = "exited" /\ exitCode' = 1
    /\ fs' = fs
    /\ requests' = << >>

\* C10 as stated: the key is the -k value, else the first non-empty variable
\* in the order named; without a key the program exits with an error before
\* it creates or modifies a conversation file and before it sends a request.
C10_KeyOrExit ==
    [][ /\ UsesPromisedKey
        /\ (pc = "start" /\ PromisedKey(rawArgs, env) = "") => StopsBeforeAnything ]_vars

\* C10 amended: the same for every run that does not ask for the help text,
\* the model list or a model's description.  Those runs need no key: without
\* one they print and exit with status 0, or report the error and exit with
\* status 1 when the description asked for is that of a model without a
\* definition; they too leave the files alone and send nothing.
C10_KeyOrExitUnlessInfo ==
    [][ /\ UsesPromisedKey
        /\ (pc = "start" /\ PromisedKey(rawArgs, env) = "" /\ ~AsksInfo(rawArgs))
             => StopsBeforeAnything
        /\ (pc = "start" /\ PromisedKey(rawArgs, env) = "" /\ AsksInfo(rawArgs))
             => /\ pc' = "exited" /\ exitCode' = InfoStatus(rawArgs)
                /\ fs' = fs
                /\ requests' = << >> ]_vars

\* a run without any key that asked for a model's description and ended
\* with status 0, no file created and nothing sent
C10_Witness ==
    /\ pc = "exited" /\ exitCode = 0
    /\ rawArgs = Opt("--modelinfo", defaultModel)
    /\ PromisedKey(rawArgs, env) = ""
    /\ fs = NoFiles /\ requests = << >>

\* the other runs that need no key: the list, the help text, and the
\* description of a model without a definition, which ends with status 1
ListedWithoutKey ==
    /\ pc = "exited" /\ exitCode = 0 /\ rawArgs = << Flag("--list") >>
    /\ PromisedKey(rawArgs, env) = ""

HelpedWithoutKey ==
    /\ pc = "exited" /\ exitCode = 0 /\ rawArgs = << Flag("-h") >>
    /\ PromisedKey(rawArgs, env) = ""

UnknownModelInfo ==
    /\ pc = "exited" /\ exitCode = 1 /\ rawArgs = Opt("--modelinfo", "no/such-model")
    /\ PromisedKey(rawArgs, env) = "" /\ fs = NoFiles

\* a run without a key and without such a request: stopped with status 1
StoppedWithoutKey ==
    /\ pc = "exited" /\ exitCode = 1 /\ rawArgs = << Word(ConvPath) >>
    /\ PromisedKey(rawArgs, env) = "" /\ fs = NoFiles /\ requests = << >>

\* a request sent with the key of the first non-empty variable, two later
\* ones being set as well and no -k given
SentWithEnvKey ==
    /\ pc = "awaiting" /\ Len(requests) = 1
    /\ ParseOptions(rawArgs).ACCESS_TOKEN = ""
    /\ env["NVIDIA_BUILD_AI_ACCESS_TOKEN"] = ""
    /\ env["NVIDIA_ACCESS_TOKEN"] # "" /\ env["ACCESS_TOKEN"] # "" /\ env["API_KEY"] # ""
    /\ requests[1].key = env["NVIDIA_ACCESS_TOKEN"]

\* a request sent with the -k value although variables are set
SentWithOptionKey ==
    /\ pc = "awaiting" /\ Len(requests) = 1
    /\ ParseOptions(rawArgs).ACCESS_TOKEN = "cli-key"
    /\ env["NVIDIA_BUILD_AI_ACCESS_TOKEN"] # ""
    /\ requests[1].key = "cli-key"

----------------------------------------------------------------------------
(* Lines of input.                                                        *)

\* a character of a line of input
CharAt(line, i) == SubSeq(line, i, i)

IsBlankChar(ch) == ch \in { " ", "\t" }

\* strings.HasPrefix(line, "/")
HasSlash(line) == Len(line) >= 1 /\ CharAt(line, 1) = "/"

\* strings.TrimSpace of one line
TrimLine(line) ==
    LET solid == { i \in 1..Len(line) : ~IsBlankChar(CharAt(line, i)) }
        lo == CHOOSE i \in solid : \A j \in solid : i <= j
        hi == CHOOSE i \in solid : \A j \in solid : i >= j
    IN IF solid = {} THEN "" ELSE SubSeq(line, lo, hi)

\* strings.Fields from character i on; word is the word being read
RECURSIVE FieldsFrom(_, _, _)
FieldsFrom(line, i, word) ==
    IF i > Len(line) THEN (IF word = "" THEN << >> ELSE << word >>)
    ELSE IF IsBlankChar(CharAt(line, i))
    THEN (IF word = "" THEN << >> ELSE << word >>) \o FieldsFrom(line, i + 1, "")
    ELSE FieldsFrom(line, i + 1, word \o CharAt(line, i))

\* strings.Fields
Fields(line) == FieldsFrom(line, 1, "")

\* parseTFlag: whether "-t" was among the arguments, and the parts without it
parseTFlag(parts) ==
    [filterThinking |-> \E i \in 2..Len(parts) : parts[i] = "-t",
     newParts |-> << parts[1] >> \o SelectSeq(Tail(parts), LAMBDA w : w # "-t")]

----------------------------------------------------------------------------
(* Setting commands typed at the prompt, for several models.               *)

MaxSettings == 2  \* setting commands typed in one session

\* the models a session is started with: the default one, one whose
\* max_tokens has a minimum and no maximum, one whose seed has a nil
\* default, and one without an entry in the registry
SettingModels == { defaultModel, "nvidia/llama-3.3-nemotron-super-49b-v1.5",
                   "deepseek-ai/deepseek-v3.1", "my/own-model" }

\* the names and the values typed after the slash
SettingNames == { "temperature", "max_tokens", "seed", "thinking", "reasoning_effort",
                  "stop", "stream", "history_limit" }

SettingValues == { "0.5", "2.5", "1024", "0", "-1", "true", "high", "loud", "unset" }

InitSettings ==
    /\ \E m \in SettingModels :
         rawArgs = WithKey(<< FlagEq("--model", m), Word(ConvPath) >>)
    /\ env = NoEnv
    /\ fs = NoFiles
    /\ InitRest

\* /<parameter> <value> and /<parameter> unset, for any of the names and values
CmdSetting ==
    /\ pc = "prompt" /\ cmds < MaxSettings
    /\ \E name \in SettingNames, value \in SettingValues :
         /\ isSettingCommand(name, cfg)
         /\ cfg' = setParameter(name, value, cfg)
         /\ typed' = [NoLine EXCEPT !.first = "/" \o name \o " " \o value,
                                     !.words = << "/" \o name, value >>]
         /\ lastOp' = Op("set", value = "unset" \/
                            validateParameter(name, value, GetModelDefinition(cfg["MODEL"])))
    /\ cmds' = cmds + 1
    /\ UNCHANGED << rawArgs, env, fs, provided, run, requests, turns, pc, exitCode,
                    wr, sIn, sOut, stack >>

NextSettings ==
    \/ Startup
    \/ CmdSetting

SpecSettings == InitSettings /\ [][NextSettings]_vars

\* getModelInfoString: the range the program declares for a numeric
\* parameter, "Range: a to b", "Range: >= a" or "Range: <= b"; v in hundredths
InDeclaredRange(param, v) ==
    LET hasMin == param.Min # 0 \/ param.Type = "float"
        hasMax == param.Max # 0
    IN (hasMin => v >= param.Min) /\ (hasMax => v <= param.Max)

\* the value passes the type, range and option checks that the schema
\* declares for the parameter (for stream and history_limit: a boolean, a
\* non-negative integer)
DeclaredValid(name, value, modelDef) ==
    IF name \notin DOMAIN modelDef.Parameters
    THEN IF name = "stream" THEN ParseBool(value).ok
         ELSE Atoi(value).ok /\ Atoi(value).v >= 0
    ELSE LET param == modelDef.Parameters[name]
         IN CASE param.Type = "float" ->
                   ParseFloat(value).ok /\ InDeclaredRange(param, ParseFloat(value).v)
              [] param.Type = "int" ->
                   Atoi(value).ok /\ InDeclaredRange(param, 100 * Atoi(value).v)
              [] param.Type = "string" -> param.Options = {} \/ value \in param.Options
              [] param.Type = "bool" -> ParseBool(value).ok
              [] OTHER -> TRUE

\* the default declared for a setting, as the text a session holds; none is
\* named for a parameter whose declared default is nil
HasDeclaredDefault(name, modelDef) ==
    name \in DOMAIN modelDef.Parameters => modelDef.Parameters[name].Default.t # "nil"

DeclaredDefault(name, modelDef) ==
    IF name \notin DOMAIN modelDef.Parameters
    THEN IF name = "stream" THEN "true" ELSE FormatD(defaultHistoryLimit)
    ELSE LET d == modelDef.Parameters[name].Default
         IN CASE d.t = "float" -> FormatG(d.n)
              [] d.t = "int" -> FormatD(d.n)
              [] d.t = "bool" -> FormatBool(d.b)
              [] OTHER -> d.s

\* what C11 promises for the settings after "/name value", given the schema
\* of the active model
SettingPromise(name, value, c, c2, modelDef) ==
    LET KEY == ToUpper(name)
    IN IF value = "unset"
       THEN IF HasDeclaredDefault(name, modelDef)
            THEN c2 = Put(c, KEY, DeclaredDefault(name, modelDef))
            ELSE \A k \in DOMAIN c : k # KEY => (k \in DOMAIN c2 /\ c2[k] = c[k])
       ELSE IF DeclaredValid(name, value, modelDef)
       THEN c2 = Put(c, KEY, value)
       ELSE c2 = c

\* the words of the line just typed, and the name after its slash
TypedWords == typed'.words

TypedName == SubSeq(TypedWords[1], 2, Len(TypedWords[1]))

\* a setting command was typed
SettingStep == cmds' = cmds + 1

\* C11: for a setting command "/name value" where name is a parameter of the
\* active model, stream or history_limit, a value that fails the parameter's
\* type, range or option check leaves the session settings unchanged, a valid
\* value becomes the session value of that setting and changes no other,
\* and "unset" sets the default declared for the parameter.
C11_SettingCommands ==
    [][ SettingStep =>
          SettingPromise(TypedName, TypedWords[2], cfg, cfg',
                         GetModelDefinition(cfg["MODEL"])) ]_vars

----------------------------------------------------------------------------
(* One pass of the interactive loop for any line typed at the prompt.      *)

\* what handleInteractiveInput returns and leaves behind: whether it took the
\* line as a command, the command's name, whether the command did what it
\* was asked, the files, the settings, whether the process exited, and
\* whether it died of a panic instead
Handled(name, ok, f, c) ==
    [handled |-> TRUE, name |-> name, ok |-> ok, fs |-> f, cfg |-> c, exit |-> FALSE,
     panic |-> FALSE]

NotHandled(f, c) ==
    [handled |-> FALSE, name |-> "", ok |-> FALSE, fs |-> f, cfg |-> c, exit |-> FALSE,
     panic |-> FALSE]

\* the result of an operation on the conversation file, as a command's result
FileResult(name, r, c) == Handled(name, r.ok, r.fs, c)

\* the result of persistSettingsToFile, which may have ended the process
SettingsResult(name, r, c) == [Handled(name, r.ok, r.fs, c) EXCEPT !.panic = r.panic]

\* the "exportlast", "exportn", "exportlastn" case
exportCommand(commandName, parts, f, convFile, c, io) ==
    LET t == parseTFlag(parts)
        np == t.newParts
        n == mustAtoi(np[2], 0)
    IN CASE commandName = "exportlast" ->
              IF Len(np) < 2 THEN Handled(commandName, FALSE, f, c)
              ELSE FileResult(commandName,
                              exportLastN(f, 1, convFile, np[2], t.filterThinking, io), c)
         [] commandName = "exportn" ->
              IF Len(np) < 3 THEN Handled(commandName, FALSE, f, c)
              ELSE FileResult(commandName,
                              exportNth(f, n, convFile, np[3], t.filterThinking, io), c)
         [] OTHER ->
              IF Len(np) < 3 THEN Handled(commandName, FALSE, f, c)
              ELSE FileResult(commandName,
                              exportLastN(f, n, convFile, np[3], t.filterThinking, io), c)

\* the static commands of handleInteractiveInput
StaticCommands == { "exit", "quit", "history", "clear", "save", "persist-system",
                    "persist-settings", "exportlast", "exportn", "exportlastn",
                    "randomodel", "help", "model", "modelinfo" }

\* the switch over the static commands; pick is the index rand.Intn draws
staticCommand(commandName, parts, f, convFile, c, io, pick) ==
    CASE commandName \in { "exit", "quit" } ->
           [Handled(commandName, TRUE, f, c) EXCEPT !.exit = TRUE]
      [] commandName = "history" -> Handled(commandName, fileExists(f, convFile), f, c)
      [] commandName = "help" -> Handled(commandName, TRUE, f, c)
      [] commandName = "clear" -> FileResult(commandName, clearMessages(f, convFile, io), c)
      [] commandName = "save" ->
           IF Len(parts) < 2 THEN Handled(commandName, FALSE, f, c)
           ELSE FileResult(commandName, copyFile(f, convFile, parts[2], io), c)
      [] commandName = "persist-system" ->
           IF Len(parts) < 2 \/ ~fileExists(f, parts[2])
           THEN Handled(commandName, FALSE, f, c)
           ELSE FileResult(commandName,
                           persistSystemToFile(f, convFile, FileText(f[parts[2]]), io), c)
      [] commandName = "persist-settings" ->
           SettingsResult(commandName, persistSettingsToFile(f, convFile, c, io), c)
      [] commandName \in { "exportlast", "exportn", "exportlastn" } ->
           exportCommand(commandName, parts, f, convFile, c, io)
      [] commandName = "randomodel" ->
           Handled(commandName, TRUE, f, Put(c, "MODEL", modelsList[pick]))
      [] commandName = "model" ->
           IF Len(parts) < 2 \/ ~modelKnown(parts[2])
           THEN Handled(commandName, FALSE, f, c)
           ELSE Handled(commandName, TRUE, f, Put(c, "MODEL", parts[2]))
      [] OTHER ->   \* "modelinfo"
           Handled(commandName, Len(parts) >= 2 /\ modelDefined(parts[2]), f, c)

\* the dynamic parameter commands, given the definition of cfg["MODEL"]
dynamicCommandOf(commandName, parts, f, c, modelDef) ==
    IF commandName \in DOMAIN modelDef.Parameters
       \/ commandName \in { "stream", "history_limit" }
    THEN IF Len(parts) < 2 THEN Handled("set", FALSE, f, c)
         ELSE Handled("set", parts[2] = "unset"
                             \/ validateParameter(commandName, parts[2], modelDef),
                      f, setParameterOf(commandName, parts[2], c, modelDef))
    ELSE NotHandled(f, c)

\* handleInteractiveInput
handleInteractiveInput(userInput, f, convFile, c, io, pick) ==
    LET parts == Fields(TrimLine(userInput))
        commandName == SubSeq(parts[1], 2, Len(parts[1]))
    IN IF Len(parts) = 0 THEN NotHandled(f, c)
       ELSE IF ~HasSlash(parts[1]) THEN NotHandled(f, c)
       ELSE IF commandName \in StaticCommands
       THEN staticCommand(commandName, parts, f, convFile, c, io, pick)
       ELSE dynamicCommandOf(commandName, parts, f, c, GetModelDefinition(c["MODEL"]))

----------------------------------------------------------------------------
(* The interactive loop, for any line typed at the prompt.                 *)

MaxPasses == 2    \* passes of the interactive loop in one session

ThinkingModel == "nvidia/llama-3.3-nemotron-super-49b-v1.5"

\* what is typed at the prompt in one pass
LoopInputs ==
    { Typed("/clear", << >>, FALSE),
      Typed("/save " \o ConvPath, << >>, FALSE),
      Typed("/save " \o OtherPath, << >>, FALSE),
      Typed("/persist-system " \o SysPath, << >>, FALSE),
      Typed("/exportlast " \o OtherPath, << >>, FALSE),
      Typed("/exportlast -t " \o OtherPath, << >>, FALSE),
      Typed("/exportlastn 2 " \o OtherPath, << >>, FALSE),
      Typed("/exportlastn 3 " \o OtherPath, << >>, FALSE),
      Typed("/exportn 1 " \o OtherPath, << >>, FALSE),
      Typed("/exportn 2 " \o OtherPath, << >>, FALSE),
      Typed("/exportn 3 " \o OtherPath, << >>, FALSE),
      Typed("/exportn 0 " \o OtherPath, << >>, FALSE),
      Typed("/exportn -1 " \o OtherPath, << >>, FALSE),
      Typed("/exportn two " \o OtherPath, << >>, FALSE),
      Typed("/exportn 1", << >>, FALSE),
      Typed("/model " \o ThinkingModel, << >>, FALSE),
      Typed("/randomodel", << >>, FALSE),
      Typed("/history", << >>, FALSE),
      Typed("/modelinfo no/such-model", << >>, FALSE),
      Typed("/exit", << >>, FALSE),
      Typed("  /temperature 0.5", << >>, FALSE),
      Typed("/thinking true", << >>, FALSE),
      Typed("/history_limit 1", << >>, TRUE),
      Typed("/temperature", << >>, FALSE),
      Typed("/shrug", << "second line" >>, FALSE),
      Typed("hello there", << >>, FALSE),
      Typed("cut short", << >>, TRUE),
      Typed("", << >>, FALSE) }

\* the runs and the files a session of the loop starts from
LoopRuns ==
    { WithKey(<< Word(ConvPath) >>),
      WithKey(Opt("-s", SysPath) \o << Flag("--no-stream"), Word(ConvPath) >>),
      WithKey(<< FlagEq("--model", ThinkingModel), Word(ConvPath) >>) }

\* a conversation file left by an earlier run: questions and answers that
\* differ, the first answer with its reasoning
LoopMsg(i) ==
    IF i % 2 = 1 THEN Msg("user", << "question " \o FormatD(i) >>)
    ELSE IF i = 2
    THEN Msg("assistant", << BeginMark, NL, "thoughts", NL, EndMark, NL, NL, "answer 2" >>)
    ELSE Msg("assistant", << "answer " \o FormatD(i) >>)

\* the file with a single question also holds a persisted system prompt
LoopConversation(k) ==
    DocFile([StoredConversation(0).doc EXCEPT
               !.Messages = [i \in 1..k |-> LoopMsg(i)],
               !.System = IF k = 1 THEN << "be formal" >> ELSE << >>])

\* a --prompt run on a file whose settings for the model turn thinking on
PromptRun ==
    WithKey(<< FlagEq("--model", ThinkingModel) >> \o Opt("--prompt", "one question")
            \o << Word(ConvPath) >>)

ThinkingFile ==
    DocFile([LoopConversation(2).doc EXCEPT
               !.Settings.Models = ThinkingModel :> [thinking |-> BoolV(TRUE)]])

InitLoop ==
    /\ \/ /\ rawArgs \in LoopRuns
          /\ fs \in { [NoFiles EXCEPT ![ConvPath] = LoopConversation(k)] : k \in { 0, 1, 4 } }
       \/ /\ rawArgs \in { PromptRun, Opt("-s", SysPath) \o PromptRun }
          /\ fs \in { [NoFiles EXCEPT ![ConvPath] = file, ![SysPath] = RawFile(sys)] :
                       file \in { ThinkingFile, LoopConversation(2), LoopConversation(1) },
                       sys \in { << "be brief" >>, << >> } }
    /\ env = NoEnv
    /\ InitRest

\* the numbers rand.Intn(len(modelsList)) can draw for a line, as indexes of
\* modelsList: it is called for /randomodel only
Picks(line) == IF line = "/randomodel" THEN 1..Len(modelsList) ELSE { 1 }

\* the outcomes of the system calls a line leads to: those of copyFile for
\* /save, those of a session's file writes for every other line
LineIO(line) == IF Len(line) >= 5 /\ SubSeq(line, 1, 5) = "/save" THEN CopyIO
                ELSE SessionIO

\* one pass of the interactive loop: a first line, then either a command
\* handled locally or the rest of the input and a user turn
LoopPass ==
    /\ pc = "prompt"
    /\ cmds + turns < MaxPasses
    /\ \E inp \in LoopInputs : \E io \in LineIO(inp.first), pick \in Picks(inp.first) :
         LET firstLineTrimmed == TrimLine(inp.first)
             h == IF HasSlash(firstLineTrimmed)
                  THEN handleInteractiveInput(firstLineTrimmed, fs, run.convFile, cfg, io, pick)
                  ELSE NotHandled(fs, cfg)
             lines == IF inp.eof THEN run.lines ELSE << inp.first >> \o inp.rest
             userInput == TrimSpace(JoinLines(lines))
             s == sendTurn(fs, cfg, run, userInput, io, TRUE)
         IN /\ typed' = [NoLine EXCEPT !.first = inp.first, !.rest = inp.rest,
                                        !.eof = inp.eof,
                                        !.words = Fields(firstLineTrimmed)]
            /\ IF inp.first = ""
               THEN /\ lastOp' = Op("empty", TRUE)
                    /\ UNCHANGED << fs, cfg, cmds, run, requests, pc, exitCode, turns >>
               ELSE IF h.handled
               THEN /\ fs' = h.fs
                    /\ cfg' = h.cfg
                    /\ cmds' = cmds + 1
                    /\ lastOp' = Op(h.name, h.ok)
                    /\ pc' = IF h.exit \/ h.panic THEN "exited" ELSE "prompt"
                    /\ exitCode' = IF h.panic THEN 2 ELSE IF h.exit THEN 0 ELSE exitCode
                    /\ UNCHANGED << run, requests, turns >>
               ELSE /\ run' = [run EXCEPT !.lines = lines]
                    /\ UNCHANGED << cfg, cmds >>
                    /\ IF userInput = << >>
                       THEN /\ lastOp' = Op("empty", TRUE)
                            /\ UNCHANGED << fs, requests, pc, exitCode, turns >>
                       ELSE /\ fs' = s.fs
                            /\ turns' = turns + 1
                            /\ lastOp' = Op("user", s.outcome # "appendfailed")
                            /\ requests' = IF s.outcome = "post"
                                           THEN Append(requests,
                                                       Request(turns + 1, run.ACCESS_TOKEN,
                                                               cfg, s.messages))
                                           ELSE requests
                            /\ pc' = CASE s.outcome = "post" -> "awaiting"
                                       [] s.outcome = "overlimit" -> "exited"
                                       [] OTHER -> "prompt"
                            /\ exitCode' = IF s.outcome = "overlimit" THEN 1 ELSE exitCode
    /\ UNCHANGED << rawArgs, env, provided, wr, sIn, sOut, stack >>

NextLoop ==
    \/ Startup
    \/ LoopPass
    \/ ProcessPrompt
    \/ StreamReply
    \/ NonStreamReply
    \/ TransportError
    \/ ApiError

SpecLoop == InitLoop /\ [][NextLoop]_vars

----------------------------------------------------------------------------
(* /clear.                                                                 *)

\* the conversation file before and after a step
StoredBefore == fs[run.convFile]

StoredAfter == fs'[run.convFile]

\* a pass of the loop handled "/clear"
ClearStep == cmds' = cmds + 1 /\ lastOp'.name = "clear"

\* C12: after a successful /clear the stored message list is empty while the
\* system prompt and the settings (stream, history_limit, the default map and
\* the per-model maps) are exactly as before; when reading or writing the
\* file fails, the stored document is unchanged.
C12_ClearKeepsTheRest ==
    [][ ClearStep =>
          IF lastOp'.ok
          THEN /\ StoredBefore.kind = "doc"
               /\ StoredAfter.kind = "doc"
               /\ StoredAfter.doc.Messages = << >>
               /\ StoredAfter.doc.System = StoredBefore.doc.System
               /\ StoredAfter.doc.Settings = StoredBefore.doc.Settings
          ELSE StoredAfter = StoredBefore ]_vars

\* messages were stored, a turn added one more, and /clear emptied the list
C12_Witness ==
    /\ lastOp = Op("clear", TRUE)
    /\ turns = 1
    /\ typed.first = "/clear"
    /\ fs[ConvPath].kind = "doc"
    /\ fs[ConvPath].doc.Messages = << >>
    /\ fs[ConvPath].doc.Settings.Default # EmptyMap

\* /clear failed: the file could not be read, or could not be written
ClearReadFailed == lastOp = Op("clear", FALSE) /\ fs[ConvPath].kind # "doc"

ClearWriteFailed ==
    /\ lastOp = Op("clear", FALSE)
    /\ fs[ConvPath].kind = "doc"
    /\ fs[ConvPath].doc.Messages # << >>

----------------------------------------------------------------------------
(* The model setting options of the help text and the README.              *)

\* strings.ReplaceAll(name, "_", "-")
RECURSIVE DashesFrom(_, _)
DashesFrom(name, i) ==
    IF i > Len(name) THEN ""
    ELSE (IF CharAt(name, i) = "_" THEN "-" ELSE CharAt(name, i)) \o DashesFrom(name, i + 1)

\* printHelp: the names under "Model Setting Options", stream and
\* history_limit first, then every parameter of every model of the registry
helpSettingsOf(defs) ==
    { "stream", "history_limit" } \cup UNION { DOMAIN defs[m].Parameters : m \in DOMAIN defs }

helpSettings == helpSettingsOf(ModelDefinitions)

\* printHelp: the option it prints for a setting
helpOption(name) == "--" \o DashesFrom(name, 1)

\* the model setting options the README lists
readmeOptions == { "--temperature", "--top-p", "--max-tokens", "--frequency-penalty",
                   "--presence-penalty", "--stop", "--stream", "--history-limit",
                   "--reasoning-effort" }

\* values of the kind each setting takes
OptionValues(name) ==
    CASE name \in { "stream", "thinking" } -> { "true", "false" }
      [] name \in { "temperature", "top_p", "frequency_penalty", "presence_penalty" } ->
           { "0.5" }
      [] name = "reasoning_effort" -> { "high", "medium" }
      [] name = "stop" -> { "END" }
      [] OTHER -> { "7", "1024" }

\* the two ways of giving a value: --option VALUE and --option=VALUE
OptionRuns ==
    { WithKey(o \o << Word(ConvPath) >>) :
        o \in UNION { UNION { { Opt(helpOption(name), v),
                                  << FlagEq(helpOption(name), v) >> } :
                                v \in OptionValues(name) } : name \in helpSettings } }

InitOptions ==
    /\ rawArgs \in OptionRuns
    /\ env = NoEnv
    /\ fs \in { NoFiles, [NoFiles EXCEPT ![ConvPath] = StoredConversation(0)] }
    /\ InitRest

NextOptions == Startup

SpecOptions == InitOptions /\ [][NextOptions]_vars

\* the option of the run, the setting it names and the value it gives
RunOption == rawArgs[3]

RunSetting == CHOOSE name \in helpSettings : helpOption(name) = RunOption.key

RunValue == IF RunOption.eq THEN RunOption.val ELSE rawArgs[4].val

\* the option loop accepted the run's option and stored its value
OptionAccepted ==
    LET st == ParseOptions(rawArgs)
    IN /\ st.exit = -1
       /\ Has(st.cfg, ToUpper(RunSetting))
       /\ st.cfg[ToUpper(RunSetting)] = RunValue
       /\ pc = "prompt" => Has(cfg, ToUpper(RunSetting)) /\ cfg[ToUpper(RunSetting)] = RunValue

\* C13: every option the help lists under "Model Setting Options" (--<name
\* with dashes> VALUE for stream, history_limit and every parameter of every
\* model of the registry), and every model setting option of the README, is
\* accepted by the option parser and sets the setting; none is rejected.
C13_ListedOptionsAccepted ==
    pc # "start" => (RunOption.key \in readmeOptions \/ RunSetting \in helpSettings)
                    /\ OptionAccepted

\* the options of the help the parser does accept, and the README's
AcceptedSomewhere == pc = "prompt" /\ OptionAccepted

ReadmeCovered == readmeOptions \subseteq { helpOption(name) : name \in helpSettings }

----------------------------------------------------------------------------
(* /exportlast, /exportlastn and /exportn.                                 *)

\* the positions of the assistant messages of a transcript
AssistantIndexes(msgs) == { i \in 1..Len(msgs) : msgs[i].Role = "assistant" }

\* the members of a set of positions, in increasing order
Ascending(S) ==
    CHOOSE q \in [1..Cardinality(S) -> S] : \A i, j \in 1..Cardinality(S) : i < j => q[i] < q[j]

\* the text of a message as exported: without its reasoning block under -t
Exported(content, filter) == IF filter THEN filterThinkingBlock(content) ELSE content

\* the last m assistant messages of a transcript, in transcript order
LastAssistantTexts(msgs, m, filter) ==
    LET A == AssistantIndexes(msgs)
        q == Ascending({ i \in A : Cardinality({ j \in A : j >= i }) <= m })
    IN [i \in 1..Len(q) |-> Exported(msgs[q[i]].Content, filter)]

\* an export command as typed: its words with -t left out, whether -t was
\* among them, the file it names last and the number it gives
ExportTyped(words) ==
    LET w == SelectSeq(words, LAMBDA x : x # "-t")
    IN [words |-> w,
        filter |-> \E i \in 2..Len(words) : words[i] = "-t",
        target |-> w[Len(w)],
        count |-> IF Len(w) = 2 THEN Ok(1) ELSE Atoi(w[2])]

Min(a, b) == IF a < b THEN a ELSE b

\* a pass of the loop ran one of the export commands on a conversation file
\* that parses
ExportStep(names) ==
    /\ cmds' = cmds + 1
    /\ lastOp'.name \in names
    /\ StoredBefore.kind = "doc"

\* what /exportlast (two words) and /exportlastn (three words) promise
ExportLastNPromise(e, msgs, k) ==
    LET texts == LastAssistantTexts(msgs, Min(e.count.v, k), e.filter)
    IN Len(e.words) = (IF lastOp'.name = "exportlast" THEN 2 ELSE 3)
       /\ e.count.ok /\ e.count.v >= 1
       => IF k >= 1
          THEN IF lastOp'.ok
               THEN /\ Len(texts) = Min(e.count.v, k)
                    /\ fs' = [fs EXCEPT ![e.target] = RawFile(JoinTexts(texts))]
               ELSE fs' = fs
          ELSE ~lastOp'.ok /\ fs' = fs

\* C14: /exportlastn <n> <file> with n >= 1, on a transcript holding k >= 1
\* assistant messages, writes to the file exactly the last min(n, k)
\* assistant messages in transcript order joined by the separator, and no
\* user message; with k = 0 it reports an error and leaves the target as it
\* was.  /exportlast is the case n = 1.  (A write the system refuses is
\* reported as an error and leaves the target as it was.)
C14_ExportLastN ==
    [][ ExportStep({ "exportlast", "exportlastn" }) =>
          ExportLastNPromise(ExportTyped(TypedWords), StoredBefore.doc.Messages,
                             Cardinality(AssistantIndexes(StoredBefore.doc.Messages))) ]_vars

\* both answers of the file were exported in their order, with the separator
\* between them
C14_Witness ==
    /\ lastOp = Op("exportlastn", TRUE)
    /\ typed.first = "/exportlastn 2 " \o OtherPath
    /\ fs[ConvPath] = LoopConversation(4)
    /\ fs[OtherPath].raw = LoopMsg(2).Content \o << NL, NL, "---", NL, NL, "answer 4" >>

\* other cases of the command: fewer answers than asked for, more, none at
\* all, and an answer exported without its reasoning
ExportedFewer ==
    /\ lastOp = Op("exportlastn", TRUE)
    /\ typed.first = "/exportlastn 3 " \o OtherPath
    /\ fs[OtherPath].raw = LoopMsg(2).Content \o << NL, NL, "---", NL, NL, "answer 4" >>

ExportedLatest ==
    /\ lastOp = Op("exportlast", TRUE)
    /\ fs[ConvPath] = LoopConversation(4)
    /\ fs[OtherPath] = RawFile(<< "answer 4" >>)

ExportedNone == lastOp = Op("exportlast", FALSE) /\ fs[ConvPath] = LoopConversation(1)

ExportedFiltered ==
    /\ lastOp = Op("exportlast", TRUE)
    /\ typed.first = "/exportlast -t " \o OtherPath
    /\ turns = 1
    /\ fs[OtherPath] = RawFile(<< "answer" >>)

\* what /exportn promises, for the three words it needs
ExportNthPromise(e, msgs, k) ==
    LET n == e.count.v
        texts == LastAssistantTexts(msgs, n, e.filter)
    IN Len(e.words) = 3
       => IF e.count.ok /\ 1 <= n /\ n <= k
          THEN IF lastOp'.ok
               THEN fs' = [fs EXCEPT ![e.target] = RawFile(texts[1])]
               ELSE fs' = fs
          ELSE ~lastOp'.ok /\ fs' = fs

\* C15: /exportn <n> <file>, on a transcript holding k assistant messages,
\* writes exactly the n-th assistant message counted from the end (n = 1 is
\* the latest) when 1 <= n <= k; for every other n (zero, negative, not a
\* number, greater than k) and for k = 0 it reports an error and leaves the
\* target as it was.  (A write the system refuses is reported as an error
\* and leaves the target as it was.)
C15_ExportNth ==
    [][ ExportStep({ "exportn" }) =>
          ExportNthPromise(ExportTyped(TypedWords), StoredBefore.doc.Messages,
                           Cardinality(AssistantIndexes(StoredBefore.doc.Messages))) ]_vars

\* the second answer from the end was exported, not the latest
C15_Witness ==
    /\ lastOp = Op("exportn", TRUE)
    /\ typed.first = "/exportn 2 " \o OtherPath
    /\ fs[ConvPath] = LoopConversation(4)
    /\ fs[OtherPath] = RawFile(LoopMsg(2).Content)

\* the numbers /exportn refuses
ExportNthRefused(line) ==
    /\ lastOp = Op("exportn", FALSE)
    /\ typed.first = line
    /\ fs[ConvPath] = LoopConversation(4)
    /\ fs[OtherPath] = Absent

RefusedZero == ExportNthRefused("/exportn 0 " \o OtherPath)

RefusedNegative == ExportNthRefused("/exportn -1 " \o OtherPath)

RefusedWord == ExportNthRefused("/exportn two " \o OtherPath)

RefusedBeyond == ExportNthRefused("/exportn 3 " \o OtherPath)

----------------------------------------------------------------------------
(* Commands are handled locally, anything else is a user turn.             *)

\* a recognized slash-command: a static command, or a setting of the active
\* model, stream or history_limit
RecognizedOf(words, modelDef) ==
    /\ Len(words) >= 1
    /\ HasSlash(words[1])
    /\ LET name == SubSeq(words[1], 2, Len(words[1]))
       IN \/ name \in StaticCommands
          \/ name \in DOMAIN modelDef.Parameters
          \/ name \in { "stream", "history_limit" }

\* the stored messages, when the file parses
MessagesOf(file) == IF file.kind = "doc" THEN file.doc.Messages ELSE << >>

\* the text typed in a pass, as one message
TypedText == TrimSpace(JoinLines(<< typed'.first >> \o typed'.rest))

\* a pass of the loop: every step taken at the prompt
PassStep == pc = "prompt"

\* the step appended nothing to the stored messages and sent nothing
NothingForwarded ==
    /\ Len(MessagesOf(StoredAfter)) <= Len(MessagesOf(StoredBefore))
    /\ requests' = requests
    /\ turns' = turns

\* the step stored the typed text as one new user message and, unless the
\* file is then over the limit, sent it as the last message of one request;
\* a file that cannot be read or written stops the turn with an error
ForwardedAsOneTurn ==
    /\ lastOp'.name = "user"
    /\ lastOp'.ok =>
         /\ MessagesOf(StoredAfter) = Append(MessagesOf(StoredBefore), Msg("user", TypedText))
         /\ IF pc' = "awaiting"
            THEN /\ Len(requests') = Len(requests) + 1
                 /\ LET sent == requests'[Len(requests')].payload.messages
                    IN sent[Len(sent)] = Msg("user", TypedText)
            ELSE requests' = requests /\ pc' = "exited"
    /\ ~lastOp'.ok => fs' = fs /\ requests' = requests

\* C16: an input whose first line is a recognized slash-command is handled
\* locally, never appended to the stored messages and never sent; every
\* other non-empty input, a line starting with "/" that is no recognized
\* command included, is forwarded as one new user turn.
C16_CommandsLocalOthersForwarded ==
    [][ PassStep /\ typed'.first # "" =>
          IF RecognizedOf(typed'.words, GetModelDefinition(cfg["MODEL"]))
          THEN NothingForwarded
          ELSE ForwardedAsOneTurn ]_vars

\* the same for inputs whose first line ends with a line end
C16_WhenFirstLineEnds ==
    [][ PassStep /\ typed'.first # "" /\ ~typed'.eof =>
          IF RecognizedOf(typed'.words, GetModelDefinition(cfg["MODEL"]))
          THEN NothingForwarded
          ELSE ForwardedAsOneTurn ]_vars

\* an unrecognized slash line was sent as a turn; a command was not
SentSlashLine ==
    /\ pc = "awaiting"
    /\ typed.first = "/shrug"
    /\ requests[Len(requests)].payload.messages[Len(requests[Len(requests)].payload.messages)]
         = Msg("user", << "/shrug", NL, "second line" >>)

----------------------------------------------------------------------------
(* The thinking control message.                                           *)

\* the step sends a request
SendStep == Len(requests') = Len(requests) + 1

Sent == requests'[Len(requests')].payload.messages

\* the control string of the session's model, "" when it has none, and
\* whether thinking is on
ControlOf(modelDef) == modelDef.PrependedSystemMessageOnThinking

ThinkingOn == Has(cfg, "THINKING") /\ ParseBool(cfg["THINKING"]).ok /\ ParseBool(cfg["THINKING"]).v

\* the request starts with the control string as a system message, followed
\* by the system prompt if any and the stored messages; the file does not
\* hold the control message
ControlFirst(control) ==
    control # "" /\ ThinkingOn =>
        /\ Len(Sent) >= 1
        /\ Sent[1] = Msg("system", << control >>)
        /\ SubSeq(Sent, 2, Len(Sent))
             = systemMessages(effectiveSystem(run.sysPromptContent, StoredAfter.doc))
               \o MessagesOf(StoredAfter)
        /\ \A i \in 1..Len(MessagesOf(StoredAfter)) :
             MessagesOf(StoredAfter)[i] # Msg("system", << control >>)

\* C17: for a model with a prepended thinking system message, every chat
\* request sent while thinking is true, by the interactive loop as well as
\* by --prompt with a conversation file, begins with that control string as
\* a system message, before the effective system prompt and the stored
\* messages; the control message is never stored in the file.
C17_ControlMessageFirst ==
    [][ SendStep => ControlFirst(ControlOf(GetModelDefinition(cfg["MODEL"]))) ]_vars

\* the same for the requests of --prompt only
C17_InPromptMode ==
    [][ SendStep /\ run.mode = "promptfile" =>
          ControlFirst(ControlOf(GetModelDefinition(cfg["MODEL"]))) ]_vars

\* a --prompt request that begins with the control message
PromptSentControl ==
    /\ run.mode = "promptfile"
    /\ Len(requests) = 1
    /\ requests[1].payload.messages[1] = Msg("system", << "/think" >>)
    /\ Len(requests[1].payload.messages) = 4

\* a request of the loop sent with thinking on
LoopSentThinking ==
    /\ run.mode = "interactive"
    /\ Len(requests) = 1
    /\ cfg["MODEL"] = ThinkingModel
    /\ Has(cfg, "THINKING") /\ cfg["THINKING"] = "true"

----------------------------------------------------------------------------
(* The system prompt of a request.                                         *)

\* the content of the file -s names on the command line, empty without -s
GivenSystem ==
    IF \E i \in 1..Len(rawArgs) : rawArgs[i].flag /\ rawArgs[i].key = "-s"
    THEN FileText(fs[SysPath]) ELSE << >>

\* the system prompt the request must carry, empty for none
PromisedSystem ==
    IF GivenSystem # << >> THEN GivenSystem
    ELSE IF StoredAfter.doc.System # << >> THEN StoredAfter.doc.System
    ELSE << >>

\* the thinking control messages a request may begin with
ControlMessages == { << >>, << Msg("system", << "/think" >>) >>,
                     << Msg("system", << "/no_think" >>) >> }

\* C18: in every request built for a conversation file, the system prompt
\* message is the content of the -s file when that is not empty, else the
\* persisted system prompt when that is not empty, else absent; it precedes
\* all stored messages and is never added to the stored list.
C18_SystemPromptOfRequest ==
    [][ SendStep /\ run.mode \in { "interactive", "promptfile" } =>
          /\ StoredAfter.kind = "doc"
          /\ \E ctl \in ControlMessages :
               Sent = ctl \o (IF PromisedSystem # << >>
                              THEN << Msg("system", PromisedSystem) >> ELSE << >>)
                          \o StoredAfter.doc.Messages
          /\ StoredAfter.doc.Messages
               = Append(MessagesOf(StoredBefore),
                        StoredAfter.doc.Messages[Len(StoredAfter.doc.Messages)])
          /\ \A i \in 1..Len(StoredAfter.doc.Messages) :
               StoredAfter.doc.Messages[i].Role # "system" ]_vars

\* a request sent with -s although the file holds another system prompt
C18_Witness ==
    /\ Len(requests) = 1
    /\ run.mode = "interactive"
    /\ run.sysPromptContent = << "be brief" >>
    /\ fs[ConvPath].kind = "doc"
    /\ fs[ConvPath].doc.System = << "be formal" >>
    /\ requests[1].payload.messages[1] = Msg("system", << "be brief" >>)
    /\ Len(requests[1].payload.messages) = Len(fs[ConvPath].doc.Messages) + 1

\* the other cases: the persisted prompt without -s and with an empty -s
\* file, and no system prompt at all
SentPersisted ==
    /\ Len(requests) = 1
    /\ run.mode = "interactive"
    /\ run.sysPromptContent = << >>
    /\ requests[1].payload.messages[1] = Msg("system", << "be formal" >>)

SentPersistedEmptyGiven ==
    /\ Len(requests) = 1
    /\ \E i \in 1..Len(rawArgs) : rawArgs[i].flag /\ rawArgs[i].key = "-s"
    /\ fs[SysPath] = RawFile(<< >>)
    /\ Msg("system", << "be formal" >>) \in Range(requests[1].payload.messages)

SentNoSystem ==
    /\ Len(requests) = 1
    /\ run.mode = "interactive"
    /\ \A i \in 1..Len(requests[1].payload.messages) :
         requests[1].payload.messages[i].Role # "system"

----------------------------------------------------------------------------
(* The limit check before the interactive loop.                            *)

\* the run asks for interactive mode: no --prompt among its arguments
AsksInteractive ==
    \A i \in 1..Len(rawArgs) : ~(rawArgs[i].flag /\ rawArgs[i].key = "--prompt")

\* the effective history limit is not a number or not positive, or the
\* file already holds that many messages
LimitForbids(c, file) ==
    \/ ~Atoi(c["HISTORY_LIMIT"]).ok
    \/ Atoi(c["HISTORY_LIMIT"]).v <= 0
    \/ file.kind = "doc" /\ Len(file.doc.Messages) >= Atoi(c["HISTORY_LIMIT"]).v

\* C19: interactive mode exits before it reads any input, appending nothing
\* and sending nothing, when the effective history limit is not a number or
\* not positive, or when the file already holds at least that many messages.
C19_ExitsBeforeLoop ==
    [][ pc = "start" /\ AsksInteractive /\ LimitForbids(cfg', fs'[ConvPath]) =>
          /\ pc' = "exited"
          /\ exitCode' # 0
          /\ requests' = << >>
          /\ turns' = 0 /\ cmds' = 0
          /\ MessagesOf(fs'[ConvPath]) = MessagesOf(fs[ConvPath]) ]_vars

\* a run stopped by a file that is already full
C19_Witness ==
    /\ pc = "exited" /\ exitCode = 1
    /\ AsksInteractive
    /\ run.convFile = ConvPath
    /\ cfg["HISTORY_LIMIT"] = "2"
    /\ fs[ConvPath] = StoredConversation(2)
    /\ requests = << >>

\* runs stopped by a limit that is no positive number
StoppedByLimit(v) ==
    /\ pc = "exited" /\ exitCode = 1
    /\ run.convFile = ConvPath
    /\ cfg["HISTORY_LIMIT"] = v
    /\ fs[ConvPath] = StoredConversation(0)

StoppedByZero == StoppedByLimit("0")

StoppedByNegative == StoppedByLimit("-1")

StoppedByWord == StoppedByLimit("many")

----------------------------------------------------------------------------
(* ensureHistoryFileStructure on its own.                                  *)

\* the files it may find at the path: none, bytes that do not parse, a
\* document with a null or missing field, a well-formed document
EnsureFiles ==
    { Absent, Garbage, Partial }
    \cup { DocFile([StoredConversation(k).doc EXCEPT !.Nil = nil]) :
             k \in { 0, 2 }, nil \in { {"messages"}, {"default"}, {"models"} } }
    \cup { DocFile([StoredConversation(k).doc EXCEPT !.Nil = {}, !.System = sys]) :
             k \in 0..MaxStored, sys \in { << >>, << "be formal" >> } }

\* the settings main holds when it calls
EnsureCfgs ==
    { [defaultCfg EXCEPT !["STREAM"] = stream, !["HISTORY_LIMIT"] = limit] :
        stream \in { "true", "false" }, limit \in { "40", "2" } }

InitEnsure ==
    /\ rawArgs = WithKey(<< Word(ConvPath) >>)
    /\ env = NoEnv
    /\ \E file \in EnsureFiles, old \in { Absent, RawFile(<< "older backup" >>) } :
         fs = [NoFiles EXCEPT ![ConvPath] = file, ![BakOf(ConvPath)] = old]
    /\ cfg \in EnsureCfgs
    /\ pc = "start"
    /\ cmds = 0
    /\ provided = {}
    /\ run = NoRun
    /\ requests = << >>
    /\ turns = 0
    /\ lastOp = Op("", TRUE)
    /\ exitCode = -1
    /\ wr = Idle
    /\ sIn = NoDecode
    /\ sOut = NoOutput
    /\ typed = NoLine
    /\ stack = NoCalls

\* one call of ensureHistoryFileStructure(convFile, cfg)
Ensure ==
    /\ pc = "start"
    /\ \E io \in IOOutcomes :
         LET en == ensureHistoryFileStructure(fs, ConvPath, cfg, io)
         IN /\ fs' = en.fs
            /\ pc' = IF en.returns THEN "returned" ELSE "overflow"
            /\ lastOp' = Op("ensure", en.returns /\ en.ok)
    /\ UNCHANGED << rawArgs, env, cfg, cmds, provided, run, requests, turns, exitCode, aux >>

NextEnsure == Ensure

SpecEnsure == InitEnsure /\ [][NextEnsure]_vars


\* the file is a document with no null field
WellFormed(file) == file.kind = "doc" /\ file.doc.Nil = {}

\* the document a missing file is created with: no messages, no system
\* prompt, the stream flag and the limit of the session, the defaults of the
\* generic model and the entry of the default model
IsFresh(file, c) ==
    /\ WellFormed(file)
    /\ file.doc.Messages = << >>
    /\ file.doc.System = << >>
    /\ file.doc.Settings.Stream = (c["STREAM"] = "true")
    /\ file.doc.Settings.HistoryLimit = mustAtoi(c["HISTORY_LIMIT"], 0)
    /\ DOMAIN file.doc.Settings.Default = DOMAIN GetModelDefinition("others").Parameters
    /\ \A name \in DOMAIN file.doc.Settings.Default :
         file.doc.Settings.Default[name]
           = JSONRoundTrip(GetModelDefinition("others").Parameters[name].Default)
    /\ DOMAIN file.doc.Settings.Models = { defaultModel }

\* C20: when ensureHistoryFileStructure returns without error, the file at
\* the path parses as a conversation document with a non-null message list,
\* default map and per-model map.  A missing file is created with empty
\* messages, empty system prompt and seeded defaults; an existing file that
\* does not parse or lacks one of these fields is first renamed to the
\* backup path, so its content is preserved, before the fresh document is
\* created; a well-formed existing file is left as it is.
C20_EnsuredStructure ==
    [][ pc = "start" /\ pc' = "returned" /\ lastOp'.ok =>
          /\ WellFormed(fs'[ConvPath])
          /\ fs[ConvPath].kind = "absent" =>
               IsFresh(fs'[ConvPath], cfg) /\ fs'[BakOf(ConvPath)] = fs[BakOf(ConvPath)]
          /\ fs[ConvPath].kind # "absent" /\ ~WellFormed(fs[ConvPath]) =>
               IsFresh(fs'[ConvPath], cfg) /\ fs'[BakOf(ConvPath)] = fs[ConvPath]
          /\ WellFormed(fs[ConvPath]) => fs' = fs ]_vars

\* a file that did not parse is now at the backup path and a fresh document
\* is at the path
C20_Witness ==
    /\ pc = "returned" /\ lastOp = Op("ensure", TRUE)
    /\ fs[BakOf(ConvPath)] = Garbage
    /\ IsFresh(fs[ConvPath], cfg)

\* the other cases: created, left alone, a null field, and the calls that
\* never end when the rename fails
EnsuredCreated ==
    /\ pc = "returned" /\ lastOp = Op("ensure", TRUE)
    /\ fs[BakOf(ConvPath)] = Absent
    /\ IsFresh(fs[ConvPath], cfg)
    /\ cfg["STREAM"] = "false"

EnsuredKept ==
    /\ pc = "returned" /\ lastOp = Op("ensure", TRUE)
    /\ fs[ConvPath].doc.System = << "be formal" >>
    /\ Len(fs[ConvPath].doc.Messages) = 2

EnsuredNullField ==
    /\ pc = "returned" /\ lastOp = Op("ensure", TRUE)
    /\ fs[BakOf(ConvPath)].kind = "doc"
    /\ fs[BakOf(ConvPath)].doc.Nil = { "models" }

EnsureNeverReturns == pc = "overflow"

----------------------------------------------------------------------------
(* ensureHistoryFileStructure call by call.                                *)

MaxDepth == 3     \* nested calls of ensureHistoryFileStructure that are followed

\* the run calls ensureHistoryFileStructure in a directory where the system
\* calls have one of the outcomes
InitCalls ==
    /\ rawArgs = WithKey(<< Word(ConvPath) >>)
    /\ env = NoEnv
    /\ \E file \in EnsureFiles, old \in { Absent, RawFile(<< "older backup" >>) } :
         fs = [NoFiles EXCEPT ![ConvPath] = file, ![BakOf(ConvPath)] = old]
    /\ cfg = defaultCfg
    /\ pc = "start"
    /\ cmds = 0
    /\ provided = {}
    /\ run = NoRun
    /\ requests = << >>
    /\ turns = 0
    /\ lastOp = Op("", TRUE)
    /\ exitCode = -1
    /\ wr = Idle
    /\ sIn = NoDecode
    /\ sOut = NoOutput
    /\ typed = NoLine
    /\ \E io \in IOOutcomes : stack = [depth |-> 0, io |-> io]

CallFrame == << rawArgs, env, cfg, cmds, provided, run, requests, turns, exitCode,
                wr, sIn, sOut, typed >>

\* main calls ensureHistoryFileStructure(convFile, cfg)
EnsureEnter ==
    /\ pc = "start"
    /\ pc' = "ensuring"
    /\ stack' = [stack EXCEPT !.depth = 1]
    /\ lastOp' = Op("call", TRUE)
    /\ UNCHANGED << fs, CallFrame >>

\* os.Stat says the file does not exist: the fresh document is written and
\* the result of ioutil.WriteFile is returned through every caller
EnsureCreate ==
    /\ pc = "ensuring"
    /\ fs[ConvPath].kind = "absent"
    /\ fs' = WriteFile(fs, ConvPath, DocFile(Marshal(FreshConversation(cfg))), stack.io)
    /\ pc' = "returned"
    /\ lastOp' = Op("ensure", stack.io \notin { "createfail", "writefail" })
    /\ UNCHANGED << stack, CallFrame >>

\* the file does not parse or has a nil field: os.Rename to the backup path,
\* its error dropped, and the function calls itself
EnsureBackup ==
    /\ pc = "ensuring"
    /\ fs[ConvPath].kind = "raw" \/ (fs[ConvPath].kind = "doc" /\ fs[ConvPath].doc.Nil # {})
    /\ stack.depth < MaxDepth
    /\ fs' = Rename(fs, ConvPath, BakOf(ConvPath), stack.io)
    /\ stack' = [stack EXCEPT !.depth = @ + 1]
    /\ lastOp' = Op("backup", stack.io # "renamefail")
    /\ UNCHANGED << pc, CallFrame >>

\* the file is well formed: return nil
EnsureKeep ==
    /\ pc = "ensuring"
    /\ fs[ConvPath].kind = "doc" /\ fs[ConvPath].doc.Nil = {}
    /\ pc' = "returned"
    /\ lastOp' = Op("ensure", TRUE)
    /\ UNCHANGED << fs, stack, CallFrame >>

NextCalls ==
    \/ EnsureEnter
    \/ EnsureCreate
    \/ EnsureBackup
    \/ EnsureKeep

\* every call that can take its next step does
SpecCalls == InitCalls /\ [][NextCalls]_vars /\ WF_vars(NextCalls)

\* C21: ensureHistoryFileStructure terminates for every state of the file
\* system: also when an existing file is malformed and the rename to the
\* backup path fails, the function returns, with or without an error.
C21_EnsureReturns == <>(pc = "returned")

\* it returns whenever the rename does not fail
ReturnsUnlessRenameFails == <>(pc = "returned" \/ stack.io = "renamefail")

\* a nested call always finds another file system than its caller did
NestedCallFindsChange == [][ pc = "ensuring" /\ pc' = "ensuring" => fs' # fs ]_vars

\* the call by call result is the one of ensureHistoryFileStructure
SameAsOneCall ==
    [][ pc = "ensuring" /\ stack.depth = 1 /\ pc' = "returned" =>
          LET en == ensureHistoryFileStructure(fs, ConvPath, cfg, stack.io)
          IN en.returns /\ en.fs = fs' /\ en.ok = lastOp'.ok ]_vars

\* the nested calls on a file the rename left in place
StillCalling ==
    /\ pc = "ensuring"
    /\ stack.depth = MaxDepth
    /\ stack.io = "renamefail"
    /\ fs[ConvPath] = Garbage

----------------------------------------------------------------------------
(* chat_template_kwargs in the requests of a session.                      *)

\* the request a step sends
SentNow == requests'[Len(requests')]

\* the session's thinking setting when a request is built: the value held
\* in cfg, and the default of the model's schema when cfg holds none
ThinkingSetting(c, modelDef) ==
    IF Has(c, "THINKING") /\ ParseBool(c["THINKING"]).ok
    THEN Ok(ParseBool(c["THINKING"]).v)
    ELSE IF "thinking" \in DOMAIN modelDef.Parameters
            /\ modelDef.Parameters["thinking"].Default.t = "bool"
    THEN Ok(modelDef.Parameters["thinking"].Default.b)
    ELSE Err

\* what is promised of the body sent for a model of this definition
KwargsPromise(body, c, modelDef) ==
    IF modelDef.ChatTemplateKwargsThinking
    THEN /\ "chat_template_kwargs" \in DOMAIN body.fields
         /\ ThinkingSetting(c, modelDef).ok
         /\ body.fields["chat_template_kwargs"] = KwargsV(ThinkingSetting(c, modelDef).v)
    ELSE "chat_template_kwargs" \notin DOMAIN body.fields

\* C22: every request to deepseek-ai/deepseek-v3.1 carries
\* chat_template_kwargs with thinking equal to the session's thinking
\* setting, which is the schema default true when neither a command nor a
\* persisted setting set it; for a model without the flag the object is
\* never sent.
C22_KwargsOfEveryRequest ==
    [][ Len(requests') > Len(requests)
        => KwargsPromise(SentNow.payload, cfg, GetModelDefinition(SentNow.payload.model)) ]_vars

\* the object is sent only to a model with the flag, and whenever the
\* session holds a thinking value it is sent with that value
KwargsWhenSet ==
    [][ Len(requests') > Len(requests)
        => LET body == SentNow.payload
               modelDef == GetModelDefinition(body.model)
           IN (Has(cfg, "THINKING") \/ ~modelDef.ChatTemplateKwargsThinking)
              => KwargsPromise(body, cfg, modelDef) ]_vars

\* a request to deepseek-v3.1 of a session that holds no thinking value:
\* the object is missing
SentWithoutKwargs ==
    \E i \in 1..Len(requests) :
       /\ requests[i].payload.model = "deepseek-ai/deepseek-v3.1"
       /\ "chat_template_kwargs" \notin DOMAIN requests[i].payload.fields
       /\ ~Has(cfg, "THINKING")

\* a request to deepseek-v3.1 after /thinking true: the object is sent
SentWithKwargs ==
    \E i \in 1..Len(requests) :
       /\ requests[i].payload.model = "deepseek-ai/deepseek-v3.1"
       /\ "chat_template_kwargs" \in DOMAIN requests[i].payload.fields
       /\ requests[i].payload.fields["chat_template_kwargs"] = KwargsV(TRUE)

----------------------------------------------------------------------------
(* The numeric values of a request and the ranges of the model's schema.   *)

\* a numeric value of a request body, in hundredths
Hundredths(v) == IF v.t = "int" THEN 100 * v.n ELSE v.n

\* every numeric field of the body that a parameter of the definition names
\* lies within the range declared for that parameter
WithinRanges(fields, modelDef) ==
    \A key \in DOMAIN modelDef.Parameters :
       LET param == modelDef.Parameters[key]
       IN (/\ param.APIKey \in DOMAIN fields
           /\ param.Type \in { "float", "int" }
           /\ fields[param.APIKey].t \in { "float", "int" })
          => InDeclaredRange(param, Hundredths(fields[param.APIKey]))

\* C23: after any sequence of setting commands and of /model and
\* /randomodel switches, every numeric parameter value placed in a request
\* body lies within the range [min, max] that the schema of the active
\* model declares for that parameter.
C23_ValuesWithinRange ==
    \A i \in 1..Len(requests) :
       WithinRanges(requests[i].payload.fields,
                    GetModelDefinition(requests[i].payload.model))

\* the model named on the command line, or the default one
StartModel ==
    IF \E i \in 1..Len(rawArgs) : rawArgs[i].key = "--model"
    THEN rawArgs[CHOOSE i \in 1..Len(rawArgs) : rawArgs[i].key = "--model"].val
    ELSE defaultModel

\* the requests for the model the session started with are within its ranges
WithinRangeOfStartModel ==
    \A i \in 1..Len(requests) :
       requests[i].payload.model = StartModel
       => WithinRanges(requests[i].payload.fields, GetModelDefinition(StartModel))

\* the value a setting command puts into the session for a numeric parameter
\* of the active model is within the range declared for it
SetWithinRange(c, c2, modelName, modelDef) ==
    \A key \in DOMAIN modelDef.Parameters :
       LET KEY == ToUpper(key)
           param == modelDef.Parameters[key]
           sent == PayloadValue(modelName, key, param, c2)
       IN (/\ Has(c2, KEY)
           /\ ~Has(c, KEY) \/ c2[KEY] # c[KEY]
           /\ param.Type \in { "float", "int" }
           /\ sent.ok)
          => InDeclaredRange(param, Hundredths(sent.v))

SettingKeepsRange ==
    [][ lastOp'.name = "set"
        => SetWithinRange(cfg, cfg', cfg["MODEL"], GetModelDefinition(cfg["MODEL"])) ]_vars

\* max_tokens 4096, accepted for the model of the start, sent to
\* mixtral-8x22b, whose schema declares 1 to 1024
SentBeyondMax ==
    \E i \in 1..Len(requests) :
       /\ requests[i].payload.model = "mistralai/mixtral-8x22b-instruct-v0.1"
       /\ requests[i].payload.fields["max_tokens"] = IntV(4096)
       /\ GetModelDefinition("mistralai/mixtral-8x22b-instruct-v0.1")
             .Parameters["max_tokens"].Max = 102400
       /\ lastOp.name = "user"

====
